---- MODULE Spec2Model ----
(***************************************************************************)
(* Model of the work-stealing task scheduler of MyEngine                   *)
(* (Engine/Core/TaskSystem.h, Engine/Core/TaskSystem.cpp).                 *)
(*                                                                         *)
(* Threads are the worker threads spawned by InitializeInternal and a few  *)
(* client threads calling the static API.  Every access to shared state    *)
(* (an atomic, a queue under its mutex, the condition variable) is one     *)
(* step; thread-local computation is folded into the neighbouring step.    *)
(* Queue and worker indices are 1-based here, 0-based in the source.       *)
(*                                                                         *)
(* s_Instance is a plain static pointer: Initialize and Shutdown racing    *)
(* with another API call that dereferences it is a data race, so the       *)
(* model lets Shutdown start only when no other client is inside such a    *)
(* call, and lets no such call start while Shutdown is in progress.        *)
(* Waiting on a TaskHandle touches only the shared counter and may overlap *)
(* with Shutdown.  A callable may call Schedule itself; such a call is     *)
(* kept apart from Shutdown in the same way as a call of a client thread.  *)
(*                                                                         *)
(* An exception that leaves a callable is not caught anywhere: it ends the *)
(* process (std::terminate), after which no thread takes a step.           *)
(*                                                                         *)
(* m_WaitMutex is only ever held by a worker between locking it and        *)
(* entering wait_for (which releases it) and between waking up and leaving *)
(* the scope; these sections touch nothing shared, so each is folded into  *)
(* one step and the mutex is always free between steps.                    *)
(***************************************************************************)
EXTENDS Integers, Sequences, FiniteSets

\* ---------------------------------------------------------------- bounds
MaxWorkers == 2
MaxTasks == 3
NumClients == 2
\* per specification: tasks submitted, instances created
SpecTasks == 2
SpecInits == 2
QueueTasks == 3
NestedTasks == 3
\* ParallelFor::Execute: largest count, largest ordinary batchSize
MaxCount == 3
MaxBatch == 3
\* largest count and batchSize of the Execute whose termination is checked
LiveCount == 2
\* uint32_t is modelled at a reduced width: values are taken modulo UINT_MOD
UINT_MOD == 16

\* ------------------------------------------------------- program constants
Background == 0
Low == 1
Normal == 2
High == 3
Priorities == {Background, Low, Normal, High}

Workers == 1..MaxWorkers
\* callers of the static API: the client threads 1..NumClients, and
\* Callable(w) for the code of the callable that runs on worker thread w
Clients == 1..(NumClients + MaxWorkers)
Callable(w) == NumClients + w
TaskIds == 1..MaxTasks
NoTask == 0
NoThread == <<"none", 0>>
WorkerThread(w) == <<"worker", w>>
ClientThread(c) == IF c > NumClients THEN WorkerThread(c - NumClients) ELSE <<"client", c>>

VARIABLES
    s_Instance,     \* TRUE iff s_Instance != nullptr
    m_Running,      \* std::atomic<bool> m_Running
    m_Workers,      \* m_Workers.size() == m_Queues.size(); 0 without instance
    m_Queues,       \* [Workers -> Seq(TaskIds)], front of the deque first
    m_QueueMutexes, \* [Workers -> thread holding the mutex, or NoThread]
    m_ActiveTasks,  \* std::atomic<uint32_t> m_ActiveTasks
    wpc,            \* [Workers -> position in WorkerThreadFunction]
    wtask,          \* [Workers -> the local `Task task`, NoTask when empty]
    attempts,       \* [Workers -> loop counter of TryStealTask]
    queueIndex,     \* [Workers -> queue locked by TryStealTask]
    wcursor,        \* [Workers -> index i of the running batch callable]
    Priority,       \* [TaskIds -> Task::Priority]
    m_Counter,      \* [TaskIds -> *TaskHandle::m_Counter of the task's handle]
    range,          \* [TaskIds -> <<start, end>> captured by the callable]
    tstate,         \* [TaskIds -> life cycle of the task]
    cpc,            \* [Clients -> position in the API call in progress]
    ctask,          \* [Clients -> task of the call in progress]
    targetQueue,    \* [Clients -> targetQueue of ScheduleInternal]
    joinIdx,        \* [Clients -> next worker joined by ShutdownInternal]
    pf,             \* [Clients -> locals of ParallelFor::Execute]
    \* history variables (observations, no program state)
    epoch,          \* number of instances created so far
    lastInit,       \* what the latest call of Initialize did
    tepoch,         \* [TaskIds -> instance the task was submitted to]
    submitter,      \* [TaskIds -> thread that called Schedule for the task]
    stamp,          \* [TaskIds -> position in the global order of pushes]
    pushes,         \* number of pushes so far
    execCount,      \* [TaskIds -> number of invocations of the callable]
    deqCount,       \* [TaskIds -> number of removals from a queue]
    fnLog,          \* <<index, thread>> of every fn call of a ParallelFor
    queuedAtStop,   \* tasks queued when Shutdown cleared m_Running
    deqAfterStop,   \* [Workers -> removals since m_Running was cleared]
    wfaSnap         \* [Clients -> tasks submitted before WaitForAll began]

shared == <<s_Instance, m_Running, m_Workers, m_Queues, m_QueueMutexes, m_ActiveTasks>>
wlocals == <<wpc, wtask, attempts, queueIndex, wcursor>>
tasks == <<Priority, m_Counter, range, tstate>>
clocals == <<cpc, ctask, targetQueue, joinIdx, pf>>
history == <<epoch, lastInit, tepoch, submitter, stamp, pushes, execCount, deqCount, fnLog,
             queuedAtStop, deqAfterStop, wfaSnap>>
vars == <<shared, wlocals, tasks, clocals, history>>

\* ---------------------------------------------------------------- helpers
Max(a, b) == IF a >= b THEN a ELSE b
Min(a, b) == IF a <= b THEN a ELSE b
U32(x) == x % UINT_MOD

NoPF == [active |-> FALSE, count |-> 0, batchSize |-> 0, numBatches |-> 0,
         batch |-> 0, handles |-> <<>>, waitIdx |-> 0, i |-> 0, used |-> 0,
         batchCall |-> FALSE, priority |-> Normal]

\* TaskHandle::IsComplete
IsComplete(t) == m_Counter[t] = 0

\* the tasks sitting in some queue
InQueues == {t \in TaskIds : \E w \in Workers : \E i \in 1..Len(m_Queues[w]) : m_Queues[w][i] = t}

\* the next unused task id (Task construction)
FreeIds == {t \in TaskIds : tstate[t] = "free"}
NewId == CHOOSE t \in FreeIds : \A u \in FreeIds : t <= u
\* the number of Tasks constructed so far
TasksUsed == Cardinality(TaskIds \ FreeIds)

\* positions of a client that dereference s_Instance
InstanceCalls == {"push_lock", "push_cs", "notify", "wait_all", "pf_schedule", "sb_schedule"}
ShutdownCalls == {"sd_notify", "sd_join", "sd_release"}
NoShutdownInProgress == \A d \in Clients : cpc[d] \notin ShutdownCalls
Quiescent(c) == \A d \in Clients \ {c} : cpc[d] \notin (InstanceCalls \cup ShutdownCalls)

Init ==
    /\ s_Instance = FALSE
    /\ m_Running = FALSE
    /\ m_Workers = 0
    /\ m_Queues = [w \in Workers |-> <<>>]
    /\ m_QueueMutexes = [w \in Workers |-> NoThread]
    /\ m_ActiveTasks = 0
    /\ wpc = [w \in Workers |-> "none"]
    /\ wtask = [w \in Workers |-> NoTask]
    /\ attempts = [w \in Workers |-> 0]
    /\ queueIndex = [w \in Workers |-> 0]
    /\ wcursor = [w \in Workers |-> 0]
    /\ Priority = [t \in TaskIds |-> Normal]
    /\ m_Counter = [t \in TaskIds |-> 0]
    /\ range = [t \in TaskIds |-> <<0, 0>>]
    /\ tstate = [t \in TaskIds |-> "free"]
    /\ cpc = [c \in Clients |-> "idle"]
    /\ ctask = [c \in Clients |-> NoTask]
    /\ targetQueue = [c \in Clients |-> 0]
    /\ joinIdx = [c \in Clients |-> 0]
    /\ pf = [c \in Clients |-> NoPF]
    /\ epoch = 0
    /\ lastInit = "none"
    /\ tepoch = [t \in TaskIds |-> 0]
    /\ submitter = [t \in TaskIds |-> NoThread]
    /\ stamp = [t \in TaskIds |-> 0]
    /\ pushes = 0
    /\ execCount = [t \in TaskIds |-> 0]
    /\ deqCount = [t \in TaskIds |-> 0]
    /\ fnLog = <<>>
    /\ queuedAtStop = {}
    /\ deqAfterStop = [w \in Workers |-> 0]
    /\ wfaSnap = [c \in Clients |-> {}]


\* ------------------------------------------------ condition variable
Waiting == {w \in Workers : wpc[w] = "waiting"}
\* m_WorkAvailable.notify_one(): one waiting worker, if any, returns from wait_for
NotifyOne == IF Waiting = {} THEN {wpc} ELSE {[wpc EXCEPT ![w] = "loop"] : w \in Waiting}
\* m_WorkAvailable.notify_all()
NotifyAll == [w \in Workers |-> IF wpc[w] = "waiting" THEN "loop" ELSE wpc[w]]

\* ------------------------------------------------ TaskSystem::Initialize
\* the automatic count without `numThreads -= 1`: one worker per logical core
NumThreads_AllCores(numThreads, hw) ==
    Max(1, IF numThreads = 0 THEN hw ELSE numThreads)

\* InitializeInternal: the number of worker threads for a request and a
\* std::thread::hardware_concurrency() hint
NumThreads(numThreads, hw) ==
    Max(1, IF numThreads = 0 THEN (IF hw > 1 THEN hw - 1 ELSE hw) ELSE numThreads)

\* Initialize without the test of s_Instance: every call builds an instance
Initialize_Again(c, numThreads, hw) ==
    /\ cpc[c] = "idle"
    /\ Quiescent(c)
    /\ NumThreads(numThreads, hw) \in Workers
    /\ lastInit' = "created"
    /\ s_Instance' = TRUE
    /\ m_Running' = TRUE
    /\ m_Workers' = NumThreads(numThreads, hw)
    /\ m_Queues' = [w \in Workers |-> <<>>]
    /\ m_QueueMutexes' = [w \in Workers |-> NoThread]
    /\ m_ActiveTasks' = 0
    /\ wpc' = [w \in Workers |->
                 IF w <= NumThreads(numThreads, hw) THEN "loop" ELSE "none"]
    /\ wtask' = [w \in Workers |-> NoTask]
    /\ attempts' = [w \in Workers |-> 0]
    /\ queueIndex' = [w \in Workers |-> 0]
    /\ wcursor' = [w \in Workers |-> 0]
    /\ epoch' = epoch + 1
    /\ queuedAtStop' = {}
    /\ deqAfterStop' = [w \in Workers |-> 0]
    /\ UNCHANGED <<tasks, clocals, tepoch, submitter, stamp, pushes, execCount,
                   deqCount, fnLog, wfaSnap>>

\* m_ActiveTasks as a counter that outlives the instance (never reset to 0)
Initialize_KeepCounter(c, numThreads, hw) ==
    /\ cpc[c] = "idle"
    /\ Quiescent(c)
    /\ IF s_Instance
       THEN /\ lastInit' = "ignored"
            /\ UNCHANGED <<shared, wlocals, tasks, clocals, epoch, tepoch, submitter, stamp,
                           pushes, execCount, deqCount, fnLog, queuedAtStop,
                           deqAfterStop, wfaSnap>>
       ELSE /\ NumThreads(numThreads, hw) \in Workers
            /\ lastInit' = "created"
            /\ s_Instance' = TRUE
            /\ m_Running' = TRUE
            /\ m_Workers' = NumThreads(numThreads, hw)
            /\ m_Queues' = [w \in Workers |-> <<>>]
            /\ m_QueueMutexes' = [w \in Workers |-> NoThread]
            /\ m_ActiveTasks' = m_ActiveTasks
            /\ wpc' = [w \in Workers |->
                         IF w <= NumThreads(numThreads, hw) THEN "loop" ELSE "none"]
            /\ wtask' = [w \in Workers |-> NoTask]
            /\ attempts' = [w \in Workers |-> 0]
            /\ queueIndex' = [w \in Workers |-> 0]
            /\ wcursor' = [w \in Workers |-> 0]
            /\ epoch' = epoch + 1
            /\ queuedAtStop' = {}
            /\ deqAfterStop' = [w \in Workers |-> 0]
            /\ UNCHANGED <<tasks, clocals, tepoch, submitter, stamp, pushes, execCount,
                           deqCount, fnLog, wfaSnap>>

Initialize(c, numThreads, hw) ==
    /\ cpc[c] = "idle"
    /\ Quiescent(c)
    /\ IF s_Instance
       THEN /\ lastInit' = "ignored"
            /\ UNCHANGED <<shared, wlocals, tasks, clocals, epoch, tepoch, submitter, stamp,
                           pushes, execCount, deqCount, fnLog, queuedAtStop,
                           deqAfterStop, wfaSnap>>
       ELSE /\ NumThreads(numThreads, hw) \in Workers
            /\ lastInit' = "created"
            /\ s_Instance' = TRUE
            /\ m_Running' = TRUE
            /\ m_Workers' = NumThreads(numThreads, hw)
            /\ m_Queues' = [w \in Workers |-> <<>>]
            /\ m_QueueMutexes' = [w \in Workers |-> NoThread]
            /\ m_ActiveTasks' = 0
            /\ wpc' = [w \in Workers |->
                         IF w <= NumThreads(numThreads, hw) THEN "loop" ELSE "none"]
            /\ wtask' = [w \in Workers |-> NoTask]
            /\ attempts' = [w \in Workers |-> 0]
            /\ queueIndex' = [w \in Workers |-> 0]
            /\ wcursor' = [w \in Workers |-> 0]
            /\ epoch' = epoch + 1
            /\ queuedAtStop' = {}
            /\ deqAfterStop' = [w \in Workers |-> 0]
            /\ UNCHANGED <<tasks, clocals, tepoch, submitter, stamp, pushes, execCount,
                           deqCount, fnLog, wfaSnap>>

\* ------------------------------------------------ TaskSystem::Schedule
\* where a client continues when Schedule returns: in the caller, in the
\* batch loop of ParallelFor::Execute, or in the loop of ScheduleBatch
\* (handles.push_back in both loops)
AfterSchedule(c, t) ==
    IF pf[c].active \/ pf[c].batchCall
    THEN /\ cpc' = [cpc EXCEPT ![c] = IF pf[c].active THEN "pf_schedule" ELSE "sb_schedule"]
         /\ pf' = [pf EXCEPT ![c].handles = Append(@, t), ![c].batch = @ + 1]
    ELSE /\ cpc' = [cpc EXCEPT ![c] = "idle"]
         /\ pf' = pf

\* ScheduleInternal without task.Handle.Increment(): the counter stays 0
ScheduleCall_NoIncrement(c, p, rg) ==
    /\ FreeIds # {}
    /\ LET t == NewId IN
       /\ Priority' = [Priority EXCEPT ![t] = p]
       /\ range' = [range EXCEPT ![t] = rg]
       /\ tepoch' = [tepoch EXCEPT ![t] = IF s_Instance THEN epoch ELSE 0]
       /\ submitter' = [submitter EXCEPT ![t] = ClientThread(c)]
       /\ IF s_Instance
          THEN /\ m_ActiveTasks' = U32(m_ActiveTasks + 1)
               /\ m_Counter' = [m_Counter EXCEPT ![t] = 0]
               /\ tstate' = [tstate EXCEPT ![t] = "new"]
               /\ \E q \in 1..m_Workers : targetQueue' = [targetQueue EXCEPT ![c] = q]
               /\ ctask' = [ctask EXCEPT ![c] = t]
               /\ cpc' = [cpc EXCEPT ![c] = "push_lock"]
               /\ pf' = pf
          ELSE /\ m_Counter' = [m_Counter EXCEPT ![t] = 0]
               /\ tstate' = [tstate EXCEPT ![t] = "unscheduled"]
               /\ AfterSchedule(c, t)
               /\ UNCHANGED <<m_ActiveTasks, targetQueue, ctask>>
    /\ UNCHANGED <<s_Instance, m_Running, m_Workers, m_Queues, m_QueueMutexes,
                   wlocals, joinIdx, epoch, lastInit, stamp, pushes, execCount, deqCount,
                   fnLog, queuedAtStop, deqAfterStop, wfaSnap>>

\* Schedule counting the task on its handle also when there is no instance
ScheduleCall_CountedAnyway(c, p, rg) ==
    /\ FreeIds # {}
    /\ LET t == NewId IN
       /\ Priority' = [Priority EXCEPT ![t] = p]
       /\ range' = [range EXCEPT ![t] = rg]
       /\ tepoch' = [tepoch EXCEPT ![t] = IF s_Instance THEN epoch ELSE 0]
       /\ submitter' = [submitter EXCEPT ![t] = ClientThread(c)]
       /\ IF s_Instance
          THEN /\ m_ActiveTasks' = U32(m_ActiveTasks + 1)
               /\ m_Counter' = [m_Counter EXCEPT ![t] = 0 + 1]
               /\ tstate' = [tstate EXCEPT ![t] = "new"]
               /\ \E q \in 1..m_Workers : targetQueue' = [targetQueue EXCEPT ![c] = q]
               /\ ctask' = [ctask EXCEPT ![c] = t]
               /\ cpc' = [cpc EXCEPT ![c] = "push_lock"]
               /\ pf' = pf
          ELSE /\ m_Counter' = [m_Counter EXCEPT ![t] = 0 + 1]
               /\ tstate' = [tstate EXCEPT ![t] = "unscheduled"]
               /\ AfterSchedule(c, t)
               /\ UNCHANGED <<m_ActiveTasks, targetQueue, ctask>>
    /\ UNCHANGED <<s_Instance, m_Running, m_Workers, m_Queues, m_QueueMutexes,
                   wlocals, joinIdx, epoch, lastInit, stamp, pushes, execCount, deqCount,
                   fnLog, queuedAtStop, deqAfterStop, wfaSnap>>

\* ScheduleInternal without m_ActiveTasks.fetch_add(1)
ScheduleCall_NoFetchAdd(c, p, rg) ==
    /\ FreeIds # {}
    /\ LET t == NewId IN
       /\ Priority' = [Priority EXCEPT ![t] = p]
       /\ range' = [range EXCEPT ![t] = rg]
       /\ tepoch' = [tepoch EXCEPT ![t] = IF s_Instance THEN epoch ELSE 0]
       /\ submitter' = [submitter EXCEPT ![t] = ClientThread(c)]
       /\ IF s_Instance
          THEN /\ m_ActiveTasks' = m_ActiveTasks
               /\ m_Counter' = [m_Counter EXCEPT ![t] = 0 + 1]
               /\ tstate' = [tstate EXCEPT ![t] = "new"]
               /\ \E q \in 1..m_Workers : targetQueue' = [targetQueue EXCEPT ![c] = q]
               /\ ctask' = [ctask EXCEPT ![c] = t]
               /\ cpc' = [cpc EXCEPT ![c] = "push_lock"]
               /\ pf' = pf
          ELSE /\ m_Counter' = [m_Counter EXCEPT ![t] = 0]
               /\ tstate' = [tstate EXCEPT ![t] = "unscheduled"]
               /\ AfterSchedule(c, t)
               /\ UNCHANGED <<m_ActiveTasks, targetQueue, ctask>>
    /\ UNCHANGED <<s_Instance, m_Running, m_Workers, m_Queues, m_QueueMutexes,
                   wlocals, joinIdx, epoch, lastInit, stamp, pushes, execCount, deqCount,
                   fnLog, queuedAtStop, deqAfterStop, wfaSnap>>

\* Schedule/ScheduleInternal up to the call of PushTask: the Task is built
\* (fresh handle, counter 0), m_ActiveTasks.fetch_add(1), Handle.Increment(),
\* the target queue is drawn.  Without an instance: return TaskHandle().
ScheduleCall(c, p, rg) ==
    /\ FreeIds # {}
    /\ LET t == NewId IN
       /\ Priority' = [Priority EXCEPT ![t] = p]
       /\ range' = [range EXCEPT ![t] = rg]
       /\ tepoch' = [tepoch EXCEPT ![t] = IF s_Instance THEN epoch ELSE 0]
       /\ submitter' = [submitter EXCEPT ![t] = ClientThread(c)]
       /\ IF s_Instance
          THEN /\ m_ActiveTasks' = U32(m_ActiveTasks + 1)
               /\ m_Counter' = [m_Counter EXCEPT ![t] = 0 + 1]
               /\ tstate' = [tstate EXCEPT ![t] = "new"]
               /\ \E q \in 1..m_Workers : targetQueue' = [targetQueue EXCEPT ![c] = q]
               /\ ctask' = [ctask EXCEPT ![c] = t]
               /\ cpc' = [cpc EXCEPT ![c] = "push_lock"]
               /\ pf' = pf
          ELSE /\ m_Counter' = [m_Counter EXCEPT ![t] = 0]
               /\ tstate' = [tstate EXCEPT ![t] = "unscheduled"]
               /\ AfterSchedule(c, t)
               /\ UNCHANGED <<m_ActiveTasks, targetQueue, ctask>>
    /\ UNCHANGED <<s_Instance, m_Running, m_Workers, m_Queues, m_QueueMutexes,
                   wlocals, joinIdx, epoch, lastInit, stamp, pushes, execCount, deqCount,
                   fnLog, queuedAtStop, deqAfterStop, wfaSnap>>

Schedule(c, p) ==
    /\ cpc[c] = "idle"
    /\ NoShutdownInProgress
    /\ ScheduleCall(c, p, <<0, 0>>)

\* Schedule called from inside the callable that worker thread w is executing
NestedSchedule(w, p) ==
    /\ wpc[w] = "run"
    /\ Schedule(Callable(w), p)

\* PushTask: the position the loop `while (it != end && it->Priority >=
\* task.Priority) ++it` stops at (1-based; Len(q) + 1 is end())
\* the loop with `>` for `>=`: it stops in front of the tasks of equal priority
RECURSIVE InsertPos_Strict(_, _, _)
InsertPos_Strict(q, p, i) ==
    IF i <= Len(q) /\ Priority[q[i]] > p THEN InsertPos_Strict(q, p, i + 1) ELSE i

RECURSIVE InsertPos(_, _, _)
InsertPos(q, p, i) ==
    IF i <= Len(q) /\ Priority[q[i]] >= p THEN InsertPos(q, p, i + 1) ELSE i

Insert(q, t, i) == SubSeq(q, 1, i - 1) \o <<t>> \o SubSeq(q, i, Len(q))

\* PushTask giving up on a busy mutex: the caller runs the callable itself and
\* does the accounting, nothing is queued
PushTask_Lock_Inline(c) ==
    /\ cpc[c] = "push_lock"
    /\ IF m_QueueMutexes[targetQueue[c]] = NoThread
       THEN /\ m_QueueMutexes' = [m_QueueMutexes EXCEPT ![targetQueue[c]] = ClientThread(c)]
            /\ cpc' = [cpc EXCEPT ![c] = "push_cs"]
            /\ UNCHANGED <<m_ActiveTasks, tasks, ctask, pf, execCount>>
       ELSE /\ execCount' = [execCount EXCEPT ![ctask[c]] = @ + 1]
            /\ tstate' = [tstate EXCEPT ![ctask[c]] = "finished"]
            /\ m_Counter' = [m_Counter EXCEPT ![ctask[c]] = @ - 1]
            /\ m_ActiveTasks' = U32(m_ActiveTasks - 1)
            /\ AfterSchedule(c, ctask[c])
            /\ ctask' = [ctask EXCEPT ![c] = NoTask]
            /\ UNCHANGED <<m_QueueMutexes, Priority, range>>
    /\ UNCHANGED <<s_Instance, m_Running, m_Workers, m_Queues, wlocals,
                   targetQueue, joinIdx, epoch, lastInit, tepoch, submitter, stamp,
                   pushes, deqCount, fnLog, queuedAtStop, deqAfterStop, wfaSnap>>

\* PushTask: std::lock_guard lock(*m_QueueMutexes[threadIndex]) (blocking)
PushTask_Lock(c) ==
    /\ cpc[c] = "push_lock"
    /\ m_QueueMutexes[targetQueue[c]] = NoThread
    /\ m_QueueMutexes' = [m_QueueMutexes EXCEPT ![targetQueue[c]] = ClientThread(c)]
    /\ cpc' = [cpc EXCEPT ![c] = "push_cs"]
    /\ UNCHANGED <<s_Instance, m_Running, m_Workers, m_Queues, m_ActiveTasks,
                   wlocals, tasks, ctask, targetQueue, joinIdx, pf, history>>

\* PushTask: the priority insert, then the lock_guard releases the mutex
PushTask_Insert(c) ==
    /\ cpc[c] = "push_cs"
    /\ LET q == targetQueue[c]
           t == ctask[c]
       IN /\ m_Queues' = [m_Queues EXCEPT ![q] =
                             Insert(@, t, InsertPos(@, Priority[t], 1))]
          /\ m_QueueMutexes' = [m_QueueMutexes EXCEPT ![q] = NoThread]
          /\ tstate' = [tstate EXCEPT ![t] = "queued"]
          /\ stamp' = [stamp EXCEPT ![t] = pushes + 1]
    /\ pushes' = pushes + 1
    /\ cpc' = [cpc EXCEPT ![c] = "notify"]
    /\ UNCHANGED <<s_Instance, m_Running, m_Workers, m_ActiveTasks, wlocals,
                   Priority, m_Counter, range, ctask, targetQueue, joinIdx, pf,
                   epoch, lastInit, tepoch, submitter, execCount, deqCount, fnLog,
                   queuedAtStop, deqAfterStop, wfaSnap>>

\* ScheduleInternal: m_WorkAvailable.notify_one(); return handle
ScheduleReturn(c) ==
    /\ cpc[c] = "notify"
    /\ wpc' \in NotifyOne
    /\ AfterSchedule(c, ctask[c])
    /\ ctask' = [ctask EXCEPT ![c] = NoTask]
    /\ UNCHANGED <<shared, wtask, attempts, queueIndex, wcursor, tasks,
                   targetQueue, joinIdx, history>>


\* ------------------------------------------ TaskSystem::WorkerThreadFunction
\* what leaves the worker's step untouched
WorkerFrame == UNCHANGED <<s_Instance, m_Running, m_Workers, clocals, epoch, lastInit,
                           tepoch, submitter, stamp, pushes, queuedAtStop, wfaSnap>>

\* a worker takes task t out of a queue (history bookkeeping of a removal)
Dequeued(w, t) ==
    /\ wtask' = [wtask EXCEPT ![w] = t]
    /\ tstate' = [tstate EXCEPT ![t] = "taken"]
    /\ deqCount' = [deqCount EXCEPT ![t] = @ + 1]
    /\ deqAfterStop' = [deqAfterStop EXCEPT ![w] = IF m_Running THEN @ ELSE @ + 1]

\* the loop as `while (true)` with the flag tested only before going idle
WorkerLoop_NoCheck(w) ==
    /\ wpc[w] = "loop"
    /\ wpc' = [wpc EXCEPT ![w] = IF m_Running \/ InQueues # {} THEN "pop" ELSE "exit"]
    /\ UNCHANGED <<m_Queues, m_QueueMutexes, m_ActiveTasks, wtask, attempts,
                   queueIndex, wcursor, tasks, execCount, deqCount, fnLog,
                   deqAfterStop>>
    /\ WorkerFrame

\* while (m_Running.load(acquire)); the thread function returns when it is false
WorkerLoop(w) ==
    /\ wpc[w] = "loop"
    /\ wpc' = [wpc EXCEPT ![w] = IF m_Running THEN "pop" ELSE "exit"]
    /\ UNCHANGED <<m_Queues, m_QueueMutexes, m_ActiveTasks, wtask, attempts,
                   queueIndex, wcursor, tasks, execCount, deqCount, fnLog,
                   deqAfterStop>>
    /\ WorkerFrame

\* TryPopTask: unique_lock(*m_QueueMutexes[threadIndex], try_to_lock); when
\* the lock is not owned TryPopTask returns false and TryStealTask starts
TryPopTask_Lock(w) ==
    /\ wpc[w] = "pop"
    /\ IF m_QueueMutexes[w] = NoThread
       THEN /\ m_QueueMutexes' = [m_QueueMutexes EXCEPT ![w] = WorkerThread(w)]
            /\ wpc' = [wpc EXCEPT ![w] = "pop_cs"]
            /\ UNCHANGED attempts
       ELSE /\ wpc' = [wpc EXCEPT ![w] = "steal"]
            /\ attempts' = [attempts EXCEPT ![w] = 0]
            /\ UNCHANGED m_QueueMutexes
    /\ UNCHANGED <<m_Queues, m_ActiveTasks, wtask, queueIndex, wcursor, tasks,
                   execCount, deqCount, fnLog, deqAfterStop>>
    /\ WorkerFrame

\* TryPopTask handing the lock to its caller with the task: the queue mutex stays
\* locked while the callable runs
TryPopTask_KeepLock(w) ==
    /\ wpc[w] = "pop_cs"
    /\ IF m_Queues[w] # <<>>
       THEN /\ Dequeued(w, Head(m_Queues[w]))
            /\ m_Queues' = [m_Queues EXCEPT ![w] = Tail(@)]
            /\ wpc' = [wpc EXCEPT ![w] = "call"]
            /\ UNCHANGED <<attempts, m_QueueMutexes>>
       ELSE /\ wpc' = [wpc EXCEPT ![w] = "steal"]
            /\ attempts' = [attempts EXCEPT ![w] = 0]
            /\ m_QueueMutexes' = [m_QueueMutexes EXCEPT ![w] = NoThread]
            /\ UNCHANGED <<m_Queues, wtask, tstate, deqCount, deqAfterStop>>
    /\ UNCHANGED <<m_ActiveTasks, queueIndex, wcursor, Priority, m_Counter, range,
                   execCount, fnLog>>
    /\ WorkerFrame

\* TryPopTask taking back()/pop_back(), as the steal does
TryPopTask_FromBack(w) ==
    /\ wpc[w] = "pop_cs"
    /\ m_QueueMutexes' = [m_QueueMutexes EXCEPT ![w] = NoThread]
    /\ IF m_Queues[w] # <<>>
       THEN /\ Dequeued(w, m_Queues[w][Len(m_Queues[w])])
            /\ m_Queues' = [m_Queues EXCEPT ![w] = SubSeq(@, 1, Len(@) - 1)]
            /\ wpc' = [wpc EXCEPT ![w] = "call"]
            /\ UNCHANGED attempts
       ELSE /\ wpc' = [wpc EXCEPT ![w] = "steal"]
            /\ attempts' = [attempts EXCEPT ![w] = 0]
            /\ UNCHANGED <<m_Queues, wtask, tstate, deqCount, deqAfterStop>>
    /\ UNCHANGED <<m_ActiveTasks, queueIndex, wcursor, Priority, m_Counter, range,
                   execCount, fnLog>>
    /\ WorkerFrame

\* TryPopTask with the lock owned: front()/pop_front() of the own queue when it
\* is not empty; the unique_lock releases the mutex on return
TryPopTask(w) ==
    /\ wpc[w] = "pop_cs"
    /\ m_QueueMutexes' = [m_QueueMutexes EXCEPT ![w] = NoThread]
    /\ IF m_Queues[w] # <<>>
       THEN /\ Dequeued(w, Head(m_Queues[w]))
            /\ m_Queues' = [m_Queues EXCEPT ![w] = Tail(@)]
            /\ wpc' = [wpc EXCEPT ![w] = "call"]
            /\ UNCHANGED attempts
       ELSE /\ wpc' = [wpc EXCEPT ![w] = "steal"]
            /\ attempts' = [attempts EXCEPT ![w] = 0]
            /\ UNCHANGED <<m_Queues, wtask, tstate, deqCount, deqAfterStop>>
    /\ UNCHANGED <<m_ActiveTasks, queueIndex, wcursor, Priority, m_Counter, range,
                   execCount, fnLog>>
    /\ WorkerFrame

\* TryStealTask entering the queue without owning the lock (owns_lock() not
\* tested)
TryStealTask_Lock_Unchecked(w, qi) ==
    /\ wpc[w] = "steal"
    /\ qi \in 1..m_Workers
    /\ m_QueueMutexes' = [m_QueueMutexes EXCEPT ![qi] = WorkerThread(w)]
    /\ queueIndex' = [queueIndex EXCEPT ![w] = qi]
    /\ wpc' = [wpc EXCEPT ![w] = "steal_cs"]
    /\ UNCHANGED <<m_Queues, m_ActiveTasks, wtask, attempts, wcursor, tasks, execCount,
                   deqCount, fnLog, deqAfterStop>>
    /\ WorkerFrame

\* TryStealTask: after a failed attempt, the next attempt or `return false`
AfterAttempt(w) == IF attempts[w] + 1 < m_Workers THEN "steal" ELSE "idle"

\* TryStealTask: one iteration of the for loop up to try_to_lock; queueIndex
\* is drawn uniformly from all queues (qi), the worker's own included
TryStealTask_Lock(w, qi) ==
    /\ wpc[w] = "steal"
    /\ qi \in 1..m_Workers
    /\ IF m_QueueMutexes[qi] = NoThread
       THEN /\ m_QueueMutexes' = [m_QueueMutexes EXCEPT ![qi] = WorkerThread(w)]
            /\ queueIndex' = [queueIndex EXCEPT ![w] = qi]
            /\ wpc' = [wpc EXCEPT ![w] = "steal_cs"]
            /\ UNCHANGED attempts
       ELSE /\ wpc' = [wpc EXCEPT ![w] = AfterAttempt(w)]
            /\ attempts' = [attempts EXCEPT ![w] = @ + 1]
            /\ UNCHANGED <<m_QueueMutexes, queueIndex>>
    /\ UNCHANGED <<m_Queues, m_ActiveTasks, wtask, wcursor, tasks, execCount,
                   deqCount, fnLog, deqAfterStop>>
    /\ WorkerFrame

\* TryStealTask as it would be without the pop_back(): the task is moved out of
\* back() and stays in the queue
TryStealTask_NoPopBack(w) ==
    /\ wpc[w] = "steal_cs"
    /\ LET qi == queueIndex[w]
           q == m_Queues[qi]
       IN /\ m_QueueMutexes' = [m_QueueMutexes EXCEPT ![qi] = NoThread]
          /\ IF q # <<>>
             THEN /\ Dequeued(w, q[Len(q)])
                  /\ wpc' = [wpc EXCEPT ![w] = "call"]
                  /\ UNCHANGED <<attempts, m_Queues>>
             ELSE /\ wpc' = [wpc EXCEPT ![w] = AfterAttempt(w)]
                  /\ attempts' = [attempts EXCEPT ![w] = @ + 1]
                  /\ UNCHANGED <<m_Queues, wtask, tstate, deqCount, deqAfterStop>>
    /\ queueIndex' = [queueIndex EXCEPT ![w] = 0]
    /\ UNCHANGED <<m_ActiveTasks, wcursor, Priority, m_Counter, range, execCount,
                   fnLog>>
    /\ WorkerFrame

\* TryStealTask with the lock owned: back()/pop_back() of the locked queue when
\* it is not empty; the unique_lock releases the mutex at the end of the iteration
TryStealTask(w) ==
    /\ wpc[w] = "steal_cs"
    /\ LET qi == queueIndex[w]
           q == m_Queues[qi]
       IN /\ m_QueueMutexes' = [m_QueueMutexes EXCEPT ![qi] = NoThread]
          /\ IF q # <<>>
             THEN /\ Dequeued(w, q[Len(q)])
                  /\ m_Queues' = [m_Queues EXCEPT ![qi] = SubSeq(q, 1, Len(q) - 1)]
                  /\ wpc' = [wpc EXCEPT ![w] = "call"]
                  /\ UNCHANGED attempts
             ELSE /\ wpc' = [wpc EXCEPT ![w] = AfterAttempt(w)]
                  /\ attempts' = [attempts EXCEPT ![w] = @ + 1]
                  /\ UNCHANGED <<m_Queues, wtask, tstate, deqCount, deqAfterStop>>
    /\ queueIndex' = [queueIndex EXCEPT ![w] = 0]
    /\ UNCHANGED <<m_ActiveTasks, wcursor, Priority, m_Counter, range, execCount,
                   fnLog>>
    /\ WorkerFrame

\* the worker testing m_Running again before the call and leaving with the
\* task when the flag is cleared
Call_UnlessStopped(w) ==
    /\ wpc[w] = "call"
    /\ IF m_Running
       THEN /\ LET t == wtask[w] IN
               /\ tstate' = [tstate EXCEPT ![t] = "running"]
               /\ execCount' = [execCount EXCEPT ![t] = @ + 1]
               /\ wcursor' = [wcursor EXCEPT ![w] = range[t][1]]
            /\ wpc' = [wpc EXCEPT ![w] = "run"]
       ELSE /\ wpc' = [wpc EXCEPT ![w] = "exit"]
            /\ UNCHANGED <<tstate, execCount, wcursor>>
    /\ UNCHANGED <<m_Queues, m_QueueMutexes, m_ActiveTasks, wtask, attempts,
                   queueIndex, Priority, m_Counter, range, deqCount, fnLog,
                   deqAfterStop>>
    /\ WorkerFrame

\* the handle decremented before the callable runs instead of after it returns
Call_AfterDecrement(w) ==
    /\ \/ /\ wpc[w] = "call"
          /\ m_Counter' = [m_Counter EXCEPT ![wtask[w]] = @ - 1]
          /\ tstate' = [tstate EXCEPT ![wtask[w]] = "running"]
          /\ execCount' = [execCount EXCEPT ![wtask[w]] = @ + 1]
          /\ wpc' = [wpc EXCEPT ![w] = "run_early"]
       \/ /\ wpc[w] = "run_early"
          /\ tstate' = [tstate EXCEPT ![wtask[w]] = "finished"]
          /\ wpc' = [wpc EXCEPT ![w] = "dec_active"]
          /\ UNCHANGED <<m_Counter, execCount>>
    /\ UNCHANGED <<m_Queues, m_QueueMutexes, m_ActiveTasks, wtask, attempts,
                   queueIndex, wcursor, Priority, range, deqCount, fnLog,
                   deqAfterStop>>
    /\ WorkerFrame

\* task.Function() is entered
Call(w) ==
    /\ wpc[w] = "call"
    /\ LET t == wtask[w] IN
       /\ tstate' = [tstate EXCEPT ![t] = "running"]
       /\ execCount' = [execCount EXCEPT ![t] = @ + 1]
       /\ wcursor' = [wcursor EXCEPT ![w] = range[t][1]]
    /\ wpc' = [wpc EXCEPT ![w] = "run"]
    /\ UNCHANGED <<m_Queues, m_QueueMutexes, m_ActiveTasks, wtask, attempts,
                   queueIndex, Priority, m_Counter, range, deqCount, fnLog,
                   deqAfterStop>>
    /\ WorkerFrame

\* the callable of a ParallelFor batch: for (i = start; i < end; ++i) function(i)
BatchStep(w) ==
    /\ wpc[w] = "run"
    /\ wcursor[w] < range[wtask[w]][2]
    /\ fnLog' = Append(fnLog, <<wcursor[w], WorkerThread(w)>>)
    /\ wcursor' = [wcursor EXCEPT ![w] = @ + 1]
    /\ UNCHANGED <<m_Queues, m_QueueMutexes, m_ActiveTasks, wpc, wtask, attempts,
                   queueIndex, tasks, execCount, deqCount, deqAfterStop>>
    /\ WorkerFrame

\* task.Function() returns
Return(w) ==
    /\ wpc[w] = "run"
    /\ cpc[Callable(w)] = "idle"
    /\ wcursor[w] >= range[wtask[w]][2]
    /\ tstate' = [tstate EXCEPT ![wtask[w]] = "finished"]
    /\ wpc' = [wpc EXCEPT ![w] = "dec_handle"]
    /\ wcursor' = [wcursor EXCEPT ![w] = 0]
    /\ UNCHANGED <<m_Queues, m_QueueMutexes, m_ActiveTasks, wtask, attempts,
                   queueIndex, Priority, m_Counter, range, execCount, deqCount,
                   fnLog, deqAfterStop>>
    /\ WorkerFrame

\* task.Function() throws: nothing in WorkerThreadFunction catches, the exception
\* leaves the thread function and std::terminate ends the process; the two
\* decrements behind the call are never reached
Throw(w) ==
    /\ wpc[w] = "run"
    /\ cpc[Callable(w)] = "idle"
    /\ tstate' = [tstate EXCEPT ![wtask[w]] = "failed"]
    /\ wpc' = [wpc EXCEPT ![w] = "terminated"]
    /\ UNCHANGED <<m_Queues, m_QueueMutexes, m_ActiveTasks, wtask, attempts,
                   queueIndex, wcursor, Priority, m_Counter, range, execCount,
                   deqCount, fnLog, deqAfterStop>>
    /\ WorkerFrame

\* std::terminate was called: no thread of the process takes another step
Terminated == \E w \in Workers : wpc[w] = "terminated"

\* the accounting after the callable in the opposite order: m_ActiveTasks
\* .fetch_sub(1) first, task.Handle.Decrement() second
Decrement_AfterFetchSub(w) ==
    /\ \/ /\ wpc[w] = "dec_handle"
          /\ m_ActiveTasks' = U32(m_ActiveTasks - 1)
          /\ wpc' = [wpc EXCEPT ![w] = "dec_swapped"]
          /\ UNCHANGED m_Counter
       \/ /\ wpc[w] = "dec_swapped"
          /\ m_Counter' = [m_Counter EXCEPT ![wtask[w]] = @ - 1]
          /\ wpc' = [wpc EXCEPT ![w] = "loop"]
          /\ UNCHANGED m_ActiveTasks
    /\ UNCHANGED <<m_Queues, m_QueueMutexes, wtask, attempts, queueIndex, wcursor,
                   Priority, range, tstate, execCount, deqCount, fnLog, deqAfterStop>>
    /\ WorkerFrame

\* the worker going on without task.Handle.Decrement()
Decrement_Skipped(w) ==
    /\ wpc[w] = "dec_handle"
    /\ m_Counter' = m_Counter
    /\ wpc' = [wpc EXCEPT ![w] = "dec_active"]
    /\ UNCHANGED <<m_Queues, m_QueueMutexes, m_ActiveTasks, wtask, attempts,
                   queueIndex, wcursor, Priority, range, tstate, execCount,
                   deqCount, fnLog, deqAfterStop>>
    /\ WorkerFrame

\* Decrement on a counter that all handles share instead of one per handle
Decrement_SharedCounter(w) ==
    /\ wpc[w] = "dec_handle"
    /\ m_Counter' = [t \in TaskIds |-> IF m_Counter[t] > 0 THEN m_Counter[t] - 1 ELSE 0]
    /\ wpc' = [wpc EXCEPT ![w] = "dec_active"]
    /\ UNCHANGED <<m_Queues, m_QueueMutexes, m_ActiveTasks, wtask, attempts,
                   queueIndex, wcursor, Priority, range, tstate, execCount,
                   deqCount, fnLog, deqAfterStop>>
    /\ WorkerFrame

\* task.Handle.Decrement()
Decrement(w) ==
    /\ wpc[w] = "dec_handle"
    /\ m_Counter' = [m_Counter EXCEPT ![wtask[w]] = @ - 1]
    /\ wpc' = [wpc EXCEPT ![w] = "dec_active"]
    /\ UNCHANGED <<m_Queues, m_QueueMutexes, m_ActiveTasks, wtask, attempts,
                   queueIndex, wcursor, Priority, range, tstate, execCount,
                   deqCount, fnLog, deqAfterStop>>
    /\ WorkerFrame

\* m_ActiveTasks.fetch_sub(1); continue
FetchSub(w) ==
    /\ wpc[w] = "dec_active"
    /\ m_ActiveTasks' = U32(m_ActiveTasks - 1)
    /\ wpc' = [wpc EXCEPT ![w] = "loop"]
    /\ UNCHANGED <<m_Queues, m_QueueMutexes, wtask, attempts, queueIndex, wcursor,
                   tasks, execCount, deqCount, fnLog, deqAfterStop>>
    /\ WorkerFrame

\* no work found: lock m_WaitMutex and enter m_WorkAvailable.wait_for(lock, 1ms),
\* which releases m_WaitMutex while the thread waits
IdleWait(w) ==
    /\ wpc[w] = "idle"
    /\ wpc' = [wpc EXCEPT ![w] = "waiting"]
    /\ attempts' = [attempts EXCEPT ![w] = 0]
    /\ UNCHANGED <<m_Queues, m_QueueMutexes, m_ActiveTasks, wtask, queueIndex,
                   wcursor, tasks, execCount, deqCount, fnLog, deqAfterStop>>
    /\ WorkerFrame

\* m_WorkAvailable.wait(lock) in place of wait_for: no return without a notification
WaitTimeout_Never(w) ==
    /\ wpc[w] = "waiting"
    /\ FALSE
    /\ UNCHANGED vars

\* wait_for returns without a notification: the 1 ms timeout (or a spurious wake-up)
WaitTimeout(w) ==
    /\ wpc[w] = "waiting"
    /\ wpc' = [wpc EXCEPT ![w] = "loop"]
    /\ UNCHANGED <<m_Queues, m_QueueMutexes, m_ActiveTasks, wtask, attempts,
                   queueIndex, wcursor, tasks, execCount, deqCount, fnLog,
                   deqAfterStop>>
    /\ WorkerFrame


\* ------------------------------------------------ TaskSystem::Shutdown
\* Shutdown / ShutdownInternal: m_Running.store(false); nothing without instance
Shutdown(c) ==
    /\ cpc[c] = "idle"
    /\ Quiescent(c)
    /\ IF s_Instance
       THEN /\ m_Running' = FALSE
            /\ cpc' = [cpc EXCEPT ![c] = "sd_notify"]
            /\ queuedAtStop' = InQueues
            /\ UNCHANGED <<s_Instance, m_Workers, m_Queues, m_QueueMutexes,
                           m_ActiveTasks, wlocals, tasks, ctask, targetQueue,
                           joinIdx, pf, epoch, lastInit, tepoch, submitter, stamp, pushes, execCount,
                           deqCount, fnLog, deqAfterStop, wfaSnap>>
       ELSE UNCHANGED vars

\* ShutdownInternal: m_WorkAvailable.notify_all()
Shutdown_NotifyAll(c) ==
    /\ cpc[c] = "sd_notify"
    /\ wpc' = NotifyAll
    /\ cpc' = [cpc EXCEPT ![c] = "sd_join"]
    /\ joinIdx' = [joinIdx EXCEPT ![c] = 1]
    /\ UNCHANGED <<shared, wtask, attempts, queueIndex, wcursor, tasks, ctask,
                   targetQueue, pf, history>>

\* ShutdownInternal: worker.join() returns once that thread function has returned
Shutdown_Join(c) ==
    /\ cpc[c] = "sd_join"
    /\ joinIdx[c] <= m_Workers
    /\ wpc[joinIdx[c]] = "exit"
    /\ wpc' = [wpc EXCEPT ![joinIdx[c]] = "joined"]
    /\ joinIdx' = [joinIdx EXCEPT ![c] = @ + 1]
    /\ UNCHANGED <<shared, wtask, attempts, queueIndex, wcursor, tasks, cpc, ctask,
                   targetQueue, pf, history>>

\* the release without waiting for the joins
Shutdown_Release_Unjoined(c) ==
    /\ cpc[c] = "sd_join"
    /\ s_Instance' = FALSE
    /\ m_Workers' = 0
    /\ m_Queues' = [w \in Workers |-> <<>>]
    /\ m_QueueMutexes' = [w \in Workers |-> NoThread]
    /\ wpc' = [w \in Workers |-> "none"]
    /\ wtask' = [w \in Workers |-> NoTask]
    /\ tstate' = [t \in TaskIds |-> IF t \in InQueues THEN "dropped" ELSE tstate[t]]
    /\ cpc' = [cpc EXCEPT ![c] = "idle"]
    /\ joinIdx' = [joinIdx EXCEPT ![c] = 0]
    /\ UNCHANGED <<m_Running, m_ActiveTasks, attempts, queueIndex, wcursor,
                   Priority, m_Counter, range, ctask, targetQueue, pf, history>>

\* the release completing the handles of the tasks it destroys
Shutdown_Release_Completing(c) ==
    /\ cpc[c] = "sd_join"
    /\ joinIdx[c] > m_Workers
    /\ s_Instance' = FALSE
    /\ m_Workers' = 0
    /\ m_Queues' = [w \in Workers |-> <<>>]
    /\ m_QueueMutexes' = [w \in Workers |-> NoThread]
    /\ wpc' = [w \in Workers |-> "none"]
    /\ wtask' = [w \in Workers |-> NoTask]
    /\ tstate' = [t \in TaskIds |-> IF t \in InQueues THEN "dropped" ELSE tstate[t]]
    /\ m_Counter' = [t \in TaskIds |-> IF t \in InQueues THEN 0 ELSE m_Counter[t]]
    /\ cpc' = [cpc EXCEPT ![c] = "idle"]
    /\ joinIdx' = [joinIdx EXCEPT ![c] = 0]
    /\ UNCHANGED <<m_Running, m_ActiveTasks, attempts, queueIndex, wcursor,
                   Priority, range, ctask, targetQueue, pf, history>>

\* ShutdownInternal after the joins: m_Workers.clear(); m_Queues.clear();
\* m_QueueMutexes.clear(); then Shutdown: delete s_Instance; s_Instance = nullptr.
\* The queued Tasks are destroyed; their handles' counters stay as they are.
Shutdown_Release(c) ==
    /\ cpc[c] = "sd_join"
    /\ joinIdx[c] > m_Workers
    /\ s_Instance' = FALSE
    /\ m_Workers' = 0
    /\ m_Queues' = [w \in Workers |-> <<>>]
    /\ m_QueueMutexes' = [w \in Workers |-> NoThread]
    /\ wpc' = [w \in Workers |-> "none"]
    /\ wtask' = [w \in Workers |-> NoTask]
    /\ tstate' = [t \in TaskIds |-> IF t \in InQueues THEN "dropped" ELSE tstate[t]]
    /\ cpc' = [cpc EXCEPT ![c] = "idle"]
    /\ joinIdx' = [joinIdx EXCEPT ![c] = 0]
    /\ UNCHANGED <<m_Running, m_ActiveTasks, attempts, queueIndex, wcursor,
                   Priority, m_Counter, range, ctask, targetQueue, pf, history>>

\* ------------------------------------------------ TaskSystem::ScheduleBatch
\* The callables of the vector are told apart by what they do: functions[k]
\* (k from 0) is the callable that calls fn(k) once, i.e. the range [k, k + 1).
\* ScheduleBatch is entered with n callables: handles is empty, the loop starts
ScheduleBatch(c, n, p) ==
    /\ cpc[c] = "idle"
    /\ NoShutdownInProgress
    /\ n <= Cardinality(FreeIds)
    /\ cpc' = [cpc EXCEPT ![c] = "sb_schedule"]
    /\ pf' = [pf EXCEPT ![c] = [NoPF EXCEPT !.batchCall = TRUE, !.count = n,
                                           !.priority = p, !.used = TasksUsed]]
    /\ fnLog' = <<>>
    /\ UNCHANGED <<shared, wlocals, tasks, ctask, targetQueue, joinIdx,
                   epoch, lastInit, tepoch, submitter, stamp, pushes, execCount,
                   deqCount, queuedAtStop, deqAfterStop, wfaSnap>>

\* the loop over the callables taken from the last one to the first
ScheduleBatch_Schedule_Reversed(c) ==
    /\ cpc[c] = "sb_schedule"
    /\ pf[c].batch < pf[c].count
    /\ ScheduleCall(c, pf[c].priority,
                    <<pf[c].count - 1 - pf[c].batch, pf[c].count - pf[c].batch>>)

\* for (const auto& func : functions) handles.push_back(Schedule(func, priority))
ScheduleBatch_Schedule(c) ==
    /\ cpc[c] = "sb_schedule"
    /\ pf[c].batch < pf[c].count
    /\ ScheduleCall(c, pf[c].priority, <<pf[c].batch, pf[c].batch + 1>>)

\* return handles; the caller then waits on every handle in turn
\* (for (auto& h : handles) h.Wait())
ScheduleBatch_Return(c) ==
    /\ cpc[c] = "sb_schedule"
    /\ ~(pf[c].batch < pf[c].count)
    /\ cpc' = [cpc EXCEPT ![c] = "sb_wait"]
    /\ pf' = [pf EXCEPT ![c].waitIdx = 1]
    /\ UNCHANGED <<shared, wlocals, tasks, ctask, targetQueue, joinIdx, history>>

\* a Wait that takes the count with it, as on a semaphore
BatchWait_Consuming(c) ==
    /\ cpc[c] = "sb_wait"
    /\ pf[c].waitIdx <= Len(pf[c].handles)
    /\ ~(m_Counter[pf[c].handles[pf[c].waitIdx]] > 0)
    /\ pf' = [pf EXCEPT ![c].waitIdx = @ + 1]
    /\ m_Counter' = [m_Counter EXCEPT ![pf[c].handles[pf[c].waitIdx]] = @ - 1]
    /\ UNCHANGED <<shared, wlocals, Priority, range, tstate, cpc, ctask,
                   targetQueue, joinIdx, history>>

\* one h.Wait() of the caller's loop returns
BatchWait(c) ==
    /\ cpc[c] = "sb_wait"
    /\ pf[c].waitIdx <= Len(pf[c].handles)
    /\ ~(m_Counter[pf[c].handles[pf[c].waitIdx]] > 0)
    /\ pf' = [pf EXCEPT ![c].waitIdx = @ + 1]
    /\ UNCHANGED <<shared, wlocals, tasks, cpc, ctask, targetQueue, joinIdx, history>>

\* every handle of the batch has been waited on
BatchWaited(c) == cpc[c] = "sb_wait" /\ pf[c].waitIdx > Len(pf[c].handles)

\* the caller drops the handles
BatchDone(c) ==
    /\ BatchWaited(c)
    /\ cpc' = [cpc EXCEPT ![c] = "idle"]
    /\ pf' = [pf EXCEPT ![c] = NoPF]
    /\ UNCHANGED <<shared, wlocals, tasks, ctask, targetQueue, joinIdx, history>>

\* ------------------------------------------------ waiting
\* the tasks whose Schedule call has returned a handle
Submitted == {t \in TaskIds : /\ tstate[t] # "free"
                              /\ \A d \in Clients : ctask[d] = t => cpc[d] = "hwait"}

\* WaitForAll is entered: nothing to wait for without an instance
WaitForAll(c) ==
    /\ cpc[c] = "idle"
    /\ NoShutdownInProgress
    /\ IF s_Instance
       THEN /\ cpc' = [cpc EXCEPT ![c] = "wait_all"]
            /\ wfaSnap' = [wfaSnap EXCEPT ![c] = {t \in Submitted : tepoch[t] = epoch}]
            /\ UNCHANGED <<shared, wlocals, tasks, ctask, targetQueue, joinIdx, pf,
                           epoch, lastInit, tepoch, submitter, stamp, pushes, execCount, deqCount, fnLog, queuedAtStop, deqAfterStop>>
       ELSE UNCHANGED vars

\* WaitForAll: the load of the loop `while (m_ActiveTasks.load() > 0) yield()`
\* that ends it
WaitForAll_Return(c) ==
    /\ cpc[c] = "wait_all"
    /\ ~(m_ActiveTasks > 0)
    /\ cpc' = [cpc EXCEPT ![c] = "idle"]
    /\ wfaSnap' = [wfaSnap EXCEPT ![c] = {}]
    /\ UNCHANGED <<shared, wlocals, tasks, ctask, targetQueue, joinIdx, pf, epoch, lastInit,
                   tepoch, submitter, stamp, pushes, execCount, deqCount, fnLog,
                   queuedAtStop, deqAfterStop>>

\* TaskHandle::Wait is entered on (a copy of) the handle of task t
Wait(c, t) ==
    /\ cpc[c] = "idle"
    /\ t \in Submitted
    /\ cpc' = [cpc EXCEPT ![c] = "hwait"]
    /\ ctask' = [ctask EXCEPT ![c] = t]
    /\ UNCHANGED <<shared, wlocals, tasks, targetQueue, joinIdx, pf, history>>

\* TaskHandle::Wait: the load of `while (m_Counter->load() > 0) yield()` that ends it
Wait_Return(c) ==
    /\ cpc[c] = "hwait"
    /\ ~(m_Counter[ctask[c]] > 0)
    /\ cpc' = [cpc EXCEPT ![c] = "idle"]
    /\ ctask' = [ctask EXCEPT ![c] = NoTask]
    /\ UNCHANGED <<shared, wlocals, tasks, targetQueue, joinIdx, pf, history>>

\* a caller holding handles (copies included) waits on each in turn:
\* for (auto& h : handles) h.Wait()
WaitEach(c, hs) ==
    /\ cpc[c] = "idle"
    /\ \A k \in 1..Len(hs) : hs[k] \in Submitted
    /\ cpc' = [cpc EXCEPT ![c] = "sb_wait"]
    /\ pf' = [pf EXCEPT ![c] = [NoPF EXCEPT !.count = Len(hs), !.handles = hs,
                                           !.waitIdx = 1, !.used = TasksUsed]]
    /\ UNCHANGED <<shared, wlocals, tasks, ctask, targetQueue, joinIdx, history>>

\* ------------------------------------------------ ParallelFor::Execute

\* TaskSystem::GetWorkerCount
GetWorkerCount == IF s_Instance THEN m_Workers ELSE 0

\* the batch size in effect: max(1u, count / (workerCount * 4)) when 0 is passed
BatchSize(count, batchSize, workerCount) ==
    IF batchSize = 0 THEN Max(1, count \div U32(workerCount * 4)) ELSE batchSize

\* uint32_t numBatches = (count + batchSize - 1) / batchSize
NumBatches(count, batchSize) == U32(count + batchSize - 1) \div batchSize

\* uint32_t start = batch * batchSize; uint32_t end = std::min(start + batchSize, count)
BatchStart(batch, batchSize) == U32(batch * batchSize)
BatchEnd(batch, batchSize, count) == Min(U32(BatchStart(batch, batchSize) + batchSize), count)

\* Execute is entered: count == 0 returns at once; without workers the serial
\* loop starts; otherwise the batches are computed
Execute(c, count, batchSize) ==
    /\ cpc[c] = "idle"
    /\ NoShutdownInProgress
    /\ IF count = 0
       THEN UNCHANGED vars
       ELSE /\ IF GetWorkerCount = 0
               THEN /\ cpc' = [cpc EXCEPT ![c] = "pf_serial"]
                    /\ pf' = [pf EXCEPT ![c] = [NoPF EXCEPT !.count = count,
                                                           !.used = TasksUsed]]
               ELSE LET bs == BatchSize(count, batchSize, GetWorkerCount) IN
                    /\ NumBatches(count, bs) <= Cardinality(FreeIds)
                    /\ cpc' = [cpc EXCEPT ![c] = "pf_schedule"]
                    /\ pf' = [pf EXCEPT ![c] =
                                [NoPF EXCEPT !.active = TRUE, !.count = count,
                                             !.batchSize = bs,
                                             !.numBatches = NumBatches(count, bs),
                                             !.used = TasksUsed]]
            /\ fnLog' = <<>>
            /\ UNCHANGED <<shared, wlocals, tasks, ctask, targetQueue, joinIdx,
                           epoch, lastInit, tepoch, submitter, stamp, pushes, execCount, deqCount,
                           queuedAtStop, deqAfterStop, wfaSnap>>

\* the serial loop as `for (i = 1; i <= count; ++i)`
Execute_Serial_FromOne(c) ==
    /\ cpc[c] = "pf_serial"
    /\ pf[c].i < pf[c].count
    /\ fnLog' = Append(fnLog, <<pf[c].i + 1, ClientThread(c)>>)
    /\ pf' = [pf EXCEPT ![c].i = @ + 1]
    /\ UNCHANGED <<shared, wlocals, tasks, cpc, ctask, targetQueue, joinIdx, epoch, lastInit,
                   tepoch, submitter, stamp, pushes, execCount, deqCount, queuedAtStop,
                   deqAfterStop, wfaSnap>>

\* the serial path: for (i = 0; i < count; ++i) function(i) on the calling thread
Execute_Serial(c) ==
    /\ cpc[c] = "pf_serial"
    /\ pf[c].i < pf[c].count
    /\ fnLog' = Append(fnLog, <<pf[c].i, ClientThread(c)>>)
    /\ pf' = [pf EXCEPT ![c].i = @ + 1]
    /\ UNCHANGED <<shared, wlocals, tasks, cpc, ctask, targetQueue, joinIdx, epoch, lastInit,
                   tepoch, submitter, stamp, pushes, execCount, deqCount, queuedAtStop,
                   deqAfterStop, wfaSnap>>

\* one iteration of the batch loop: TaskSystem::Schedule of the lambda for
\* [start, end) with the default priority
Execute_Schedule(c) ==
    /\ cpc[c] = "pf_schedule"
    /\ pf[c].batch < pf[c].numBatches
    /\ ScheduleCall(c, Normal, <<BatchStart(pf[c].batch, pf[c].batchSize),
                                 BatchEnd(pf[c].batch, pf[c].batchSize, pf[c].count)>>)

\* the batch loop is over: the loop over the handles starts
Execute_Scheduled(c) ==
    /\ cpc[c] = "pf_schedule"
    /\ ~(pf[c].batch < pf[c].numBatches)
    /\ cpc' = [cpc EXCEPT ![c] = "pf_wait"]
    /\ pf' = [pf EXCEPT ![c].waitIdx = 1]
    /\ UNCHANGED <<shared, wlocals, tasks, ctask, targetQueue, joinIdx, history>>

\* for (auto& handle : handles) handle.Wait(): one Wait returns
Execute_Wait(c) ==
    /\ cpc[c] = "pf_wait"
    /\ pf[c].waitIdx <= Len(pf[c].handles)
    /\ ~(m_Counter[pf[c].handles[pf[c].waitIdx]] > 0)
    /\ pf' = [pf EXCEPT ![c].waitIdx = @ + 1]
    /\ UNCHANGED <<shared, wlocals, tasks, cpc, ctask, targetQueue, joinIdx, history>>

\* Execute is about to return
Returning(c) ==
    \/ cpc[c] = "pf_wait" /\ pf[c].waitIdx > Len(pf[c].handles)
    \/ cpc[c] = "pf_serial" /\ ~(pf[c].i < pf[c].count)

Execute_Return(c) ==
    /\ Returning(c)
    /\ cpc' = [cpc EXCEPT ![c] = "idle"]
    /\ pf' = [pf EXCEPT ![c] = NoPF]
    /\ UNCHANGED <<shared, wlocals, tasks, ctask, targetQueue, joinIdx, history>>

\* ------------------------------------------------ next-state relations
NextWorker(w) ==
    \/ WorkerLoop(w)
    \/ TryPopTask_Lock(w)
    \/ TryPopTask(w)
    \/ \E qi \in Workers : TryStealTask_Lock(w, qi)
    \/ TryStealTask(w)
    \/ Call(w)
    \/ BatchStep(w)
    \/ Return(w)
    \/ Decrement(w)
    \/ FetchSub(w)
    \/ IdleWait(w)
    \/ WaitTimeout(w)

\* the worker as the scheduler alone sees it: no callable is a batch
NextPlainWorker(w) ==
    \/ WorkerLoop(w)
    \/ TryPopTask_Lock(w)
    \/ TryPopTask(w)
    \/ \E qi \in Workers : TryStealTask_Lock(w, qi)
    \/ TryStealTask(w)
    \/ Call(w)
    \/ Return(w)
    \/ Decrement(w)
    \/ FetchSub(w)
    \/ IdleWait(w)
    \/ WaitTimeout(w)

NextSchedule(c) ==
    \/ PushTask_Lock(c)
    \/ PushTask_Insert(c)
    \/ ScheduleReturn(c)

NextShutdown(c) ==
    \/ Shutdown(c)
    \/ Shutdown_NotifyAll(c)
    \/ Shutdown_Join(c)
    \/ Shutdown_Release(c)

NextInitialize(c, inits) ==
    /\ epoch < inits
    /\ \E n \in 0..MaxWorkers : \E hw \in 0..(MaxWorkers + 1) : Initialize(c, n, hw)

\* the main thread drives the whole life cycle of the scheduler
Main == 1
TwoPriorities == {Low, High}

Next ==
    \/ NextInitialize(Main, SpecInits)
    \/ \E p \in TwoPriorities : TasksUsed < SpecTasks /\ Schedule(Main, p)
    \/ NextSchedule(Main)
    \/ WaitForAll(Main)
    \/ WaitForAll_Return(Main)
    \/ \E t \in TaskIds : Wait(Main, t)
    \/ Wait_Return(Main)
    \/ NextShutdown(Main)
    \/ \E w \in Workers : NextPlainWorker(w)

Spec == Init /\ [][Next]_vars

\* fair thread scheduling: every worker thread keeps running, and a call in
\* progress on the main thread keeps running (nobody is obliged to make a call).
\* A thread blocked in std::mutex::lock gets the mutex if it is free again and
\* again: a queue mutex is held for the few instructions of a push, pop or
\* steal, and an idle worker leaves it free for the 1 ms of its wait_for.
InProgress(c) ==
    \/ NextSchedule(c)
    \/ Shutdown_NotifyAll(c)
    \/ Shutdown_Join(c)
    \/ Shutdown_Release(c)

Fairness ==
    /\ \A w \in Workers : WF_vars(NextPlainWorker(w))
    /\ WF_vars(InProgress(Main))
    /\ SF_vars(PushTask_Lock(Main))

\* one instance from Initialize to Shutdown
LiveNext ==
    \/ NextInitialize(Main, 1)
    \/ TasksUsed < SpecTasks /\ Schedule(Main, Normal)
    \/ NextSchedule(Main)
    \/ NextShutdown(Main)
    \/ \E w \in Workers : NextPlainWorker(w)

FairSpec == Init /\ [][LiveNext]_vars /\ Fairness

\* pushes, pops and steals on the queues of one instance
QueueNext ==
    \/ NextInitialize(Main, 1)
    \/ \E p \in TwoPriorities : TasksUsed < QueueTasks /\ Schedule(Main, p)
    \/ NextSchedule(Main)
    \/ \E w \in Workers : NextPlainWorker(w)

QueueSpec == Init /\ [][QueueNext]_vars

\* One worker; the main thread submits A (Low), B (High), C (Normal) in that
\* order, as tasks 1, 2, 3.  No contention: the worker runs before the first
\* Schedule is called and after the third has returned, not in between, and
\* it does not hold the queue mutex when the submissions start.
TaskA == 1
TaskB == 2
TaskC == 3
PriorityOf(t) == IF t = TaskA THEN Low ELSE IF t = TaskB THEN High ELSE Normal
Submitting == TasksUsed \in {1, 2} \/ cpc[Main] # "idle"

PrioNext ==
    \/ epoch < 1 /\ \E hw \in 0..(MaxWorkers + 1) : Initialize(Main, 1, hw)
    \/ /\ s_Instance
       /\ FreeIds # {}
       /\ m_QueueMutexes[1] = NoThread
       /\ Schedule(Main, PriorityOf(NewId))
    \/ NextSchedule(Main)
    \/ ~Submitting /\ NextPlainWorker(1)

PrioSpec == Init /\ [][PrioNext]_vars

\* ParallelFor::Execute on the main thread, before and after Initialize
BatchSizes == (0..MaxBatch) \cup {UINT_MOD - 2, UINT_MOD - 1}

\* one call of Execute that submits tasks per run
NextExecute(c) ==
    \/ \E count \in 0..MaxCount : \E batchSize \in BatchSizes :
          TasksUsed = 0 /\ Execute(c, count, batchSize)
    \/ Execute_Serial(c)
    \/ Execute_Schedule(c)
    \/ Execute_Scheduled(c)
    \/ Execute_Wait(c)
    \/ Execute_Return(c)

PFNext ==
    \/ NextInitialize(Main, 1)
    \/ NextExecute(Main)
    \/ NextSchedule(Main)
    \/ \E w \in Workers : NextWorker(w)

PFSpec == Init /\ [][PFNext]_vars

\* callables that may throw: the scheduler and the two ways of waiting
FailNext ==
    \/ ~Terminated /\ NextInitialize(Main, 1)
    \/ ~Terminated /\ TasksUsed < SpecTasks /\ Schedule(Main, Normal)
    \/ ~Terminated /\ NextSchedule(Main)
    \/ ~Terminated /\ WaitForAll(Main)
    \/ ~Terminated /\ WaitForAll_Return(Main)
    \/ \E t \in TaskIds : ~Terminated /\ Wait(Main, t)
    \/ ~Terminated /\ Wait_Return(Main)
    \/ \E w \in Workers : ~Terminated /\ NextPlainWorker(w)
    \/ \E w \in Workers : ~Terminated /\ Throw(w)

\* the threads of a live process keep running; no callable is obliged to throw
FailFairness ==
    /\ \A w \in Workers : WF_vars(~Terminated /\ NextPlainWorker(w))
    /\ WF_vars(~Terminated /\ NextSchedule(Main))
    /\ SF_vars(~Terminated /\ PushTask_Lock(Main))

FailSpec == Init /\ [][FailNext]_vars /\ FailFairness

\* the life of handles: Schedule with and without an instance, Shutdown with
\* tasks queued, a second instance, and a caller that waits on one handle
\* twice or on two handles
HandleVectors == {<<t, u>> : t \in TaskIds, u \in TaskIds}

HandleNext ==
    \/ NextInitialize(Main, SpecInits)
    \/ TasksUsed < SpecTasks /\ Schedule(Main, Normal)
    \/ NextSchedule(Main)
    \/ \E n \in 1..SpecTasks :
          ~s_Instance /\ TasksUsed + n <= SpecTasks /\ ScheduleBatch(Main, n, Normal)
    \/ ScheduleBatch_Schedule(Main)
    \/ ScheduleBatch_Return(Main)
    \/ \E hs \in HandleVectors : WaitEach(Main, hs)
    \/ BatchWait(Main)
    \/ BatchDone(Main)
    \/ NextShutdown(Main)
    \/ \E w \in Workers : NextPlainWorker(w)

HandleSpec == Init /\ [][HandleNext]_vars

\* one call of Execute from the main thread on an initialized scheduler that
\* is not shut down, with an fn that returns; the threads are scheduled fairly
PFLiveNext ==
    \/ NextInitialize(Main, 1)
    \/ \E count \in 1..LiveCount : \E batchSize \in 0..LiveCount :
          s_Instance /\ TasksUsed = 0 /\ Execute(Main, count, batchSize)
    \/ Execute_Schedule(Main)
    \/ Execute_Scheduled(Main)
    \/ Execute_Wait(Main)
    \/ Execute_Return(Main)
    \/ NextSchedule(Main)
    \/ \E w \in Workers : NextWorker(w)

PFFairness ==
    /\ \A w \in Workers : WF_vars(NextWorker(w))
    /\ WF_vars(Execute_Schedule(Main) \/ Execute_Scheduled(Main)
                  \/ Execute_Wait(Main) \/ Execute_Return(Main))
    /\ WF_vars(NextSchedule(Main))
    /\ SF_vars(PushTask_Lock(Main))

PFLiveSpec == Init /\ [][PFLiveNext]_vars /\ PFFairness

\* Execute with the automatic batch size (batchSize = 0) on an initialized
\* scheduler, for small counts and for the largest uint32_t
AutoCounts == (0..MaxCount) \cup {UINT_MOD - 1}

AutoNext ==
    \/ NextInitialize(Main, 1)
    \/ \E count \in AutoCounts : s_Instance /\ TasksUsed = 0 /\ Execute(Main, count, 0)
    \/ Execute_Schedule(Main)
    \/ NextSchedule(Main)
    \/ Execute_Scheduled(Main)
    \/ Execute_Wait(Main)
    \/ Execute_Return(Main)
    \/ \E w \in Workers : NextWorker(w)

AutoSpec == Init /\ [][AutoNext]_vars

\* one ScheduleBatch of up to MaxTasks callables, then a Wait on every handle
BatchNext ==
    \/ NextInitialize(Main, 1)
    \/ \E n \in 0..MaxTasks : \E p \in TwoPriorities :
          TasksUsed = 0 /\ ScheduleBatch(Main, n, p)
    \/ ScheduleBatch_Schedule(Main)
    \/ NextSchedule(Main)
    \/ ScheduleBatch_Return(Main)
    \/ BatchWait(Main)
    \/ BatchDone(Main)
    \/ \E w \in Workers : NextWorker(w)

BatchSpec == Init /\ [][BatchNext]_vars

\* Schedule from the main thread and from inside running callables; a callable
\* may run forever.  NestedTasks tasks are submitted to a scheduler with one
\* worker (two can be queued while the worker is busy), one fewer for every
\* further worker.
NestedBudget == TasksUsed < NestedTasks + 1 - m_Workers

NestedNext ==
    \/ NextInitialize(Main, 1)
    \/ NestedBudget /\ Schedule(Main, Normal)
    \/ NextSchedule(Main)
    \/ \E w \in Workers : NestedBudget /\ NestedSchedule(w, Normal)
    \/ \E w \in Workers : NextSchedule(Callable(w))
    \/ \E w \in Workers : NextPlainWorker(w)

\* a thread inside Schedule keeps running and gets the queue mutex it blocks on
\* (see Fairness); a worker leaves the critical section of a pop or steal.
\* Nothing else is assumed: callables need not return, workers need not loop.
NestedFairness ==
    /\ \A c \in {Main} \cup {Callable(w) : w \in Workers} :
          WF_vars(NextSchedule(c)) /\ SF_vars(PushTask_Lock(c))
    /\ \A w \in Workers : WF_vars(TryPopTask(w)) /\ WF_vars(TryStealTask(w))

NestedSpec == Init /\ [][NestedNext]_vars /\ NestedFairness

\* ------------------------------------------------------------ properties
\* the workers that hold a dequeued task whose accounting is not finished
Holders(t) == {w \in Workers : wtask[w] = t /\ wpc[w] \in {"call", "run", "dec_handle", "dec_active"}}

\* C1: no task is executed twice: every task is removed from a queue at most
\* once, is held by at most one worker and its callable is invoked at most once
C1_AtMostOnce ==
    \A t \in TaskIds :
        /\ deqCount[t] <= 1
        /\ execCount[t] <= 1
        /\ Cardinality(Holders(t)) <= 1

\* C1 happens: two workers hold two different dequeued tasks at the same time
\* and both callables have been invoked
C1_Witness ==
    \E t, u \in TaskIds :
        /\ t # u
        /\ execCount[t] = 1 /\ execCount[u] = 1
        /\ \E w, x \in Workers : w # x /\ wtask[w] = t /\ wtask[x] = u
           /\ wpc[w] = "dec_active" /\ wpc[x] = "run"

\* a task that is neither executed nor dequeued any more
Terminal == {"finished", "dropped", "unscheduled"}

\* C3: when WaitForAll returns (its load of m_ActiveTasks reads 0), every task
\* submitted to the running scheduler before the call started has finished
\* executing and IsComplete() is true on its handle
C3_WaitForAll ==
    \A c \in Clients :
        (cpc[c] = "wait_all" /\ ~(m_ActiveTasks > 0)) =>
            \A t \in wfaSnap[c] : tstate[t] = "finished" /\ IsComplete(t)

\* C3 happens: WaitForAll is returning for two submitted tasks, one of which a
\* worker has just accounted for
C3_Witness ==
    /\ cpc[Main] = "wait_all"
    /\ m_ActiveTasks = 0
    /\ Cardinality(wfaSnap[Main]) = 2
    /\ \E w \in Workers : wpc[w] = "loop" /\ wtask[w] \in wfaSnap[Main]

\* C4: the handle of a task scheduled on an initialized scheduler is complete,
\* and a Wait on it returns, only after the callable has run to completion
C4_CompleteAfterRun ==
    /\ \A t \in TaskIds :
          (tstate[t] # "free" /\ tepoch[t] > 0 /\ IsComplete(t)) => tstate[t] = "finished"
    /\ \A c \in Clients :
          (cpc[c] = "hwait" /\ tepoch[ctask[c]] > 0 /\ ~(m_Counter[ctask[c]] > 0))
              => tstate[ctask[c]] = "finished"

\* C4 happens: a Wait entered on the handle of a scheduled task is returning
C4_Witness ==
    /\ cpc[Main] = "hwait"
    /\ tepoch[ctask[Main]] > 0
    /\ IsComplete(ctask[Main])
    /\ execCount[ctask[Main]] = 1

\* C5 as stated: a task inside a queue when Shutdown clears the running flag
\* is never dequeued or executed afterwards
C5_QueuedAtStopStay ==
    \A t \in queuedAtStop : tstate[t] \in {"queued", "dropped"} /\ execCount[t] = 0

\* C5 as amended: after the flag is cleared each worker dequeues at most one
\* more task (it had passed its test of the flag), and a task still queued when
\* the workers are joined and the queues released was never dequeued or
\* executed and never is
C5_DroppedNeverRun ==
    /\ \A w \in Workers : deqAfterStop[w] <= 1
    /\ \A t \in TaskIds : tstate[t] = "dropped" => deqCount[t] = 0 /\ execCount[t] = 0
    /\ \A t \in queuedAtStop :
          tstate[t] \notin {"queued", "dropped"} =>
              \E w \in Workers : deqAfterStop[w] = 1 /\ deqCount[t] = 1

\* C5 happens: Shutdown has released the queues with a task still inside,
\* after a worker took another one once the flag was cleared
C5_Witness ==
    /\ ~s_Instance
    /\ \E t, u \in TaskIds :
          /\ tstate[t] = "dropped" /\ t \in queuedAtStop
          /\ tstate[u] = "finished" /\ u \in queuedAtStop

\* C2: with fair scheduling and terminating callables, a task submitted to an
\* initialized scheduler is eventually executed, unless Shutdown is called
C2_EventuallyExecuted ==
    \A t \in TaskIds :
        (tstate[t] \in {"new", "queued"} /\ m_Running) ~> (execCount[t] = 1 \/ ~m_Running)

\* C2 happens: a task was executed although every worker had gone to wait
\* before the notify_one of its Schedule (the push found nobody to wake)
C2_Witness ==
    \E t \in TaskIds :
        /\ tstate[t] = "queued"
        /\ cpc[Main] = "idle"
        /\ m_Running
        /\ \A w \in 1..m_Workers : wpc[w] = "waiting"

\* C10: Shutdown releases the queues only after the flag is cleared and every
\* worker is joined; it returns; once it has returned no worker is alive, no
\* callable is executing, and no task of the instance starts executing later
C10_Shutdown ==
    /\ [](~s_Instance =>
            /\ \A w \in Workers : wpc[w] = "none"
            /\ \A t \in TaskIds : tstate[t] \in ({"free"} \cup Terminal))
    /\ [][(s_Instance /\ ~s_Instance') =>
            (~m_Running /\ \A w \in 1..m_Workers : wpc[w] = "joined")]_vars
    /\ [][\A t \in TaskIds : tstate[t] \in Terminal =>
            (tstate'[t] = tstate[t] /\ execCount'[t] = execCount[t])]_vars
    /\ \A c \in Clients : (cpc[c] \in ShutdownCalls) ~> (cpc[c] = "idle")

\* C10 happens: Shutdown has returned after joining workers that executed a task
C10_Witness ==
    /\ ~s_Instance
    /\ epoch >= 1
    /\ cpc[Main] = "idle"
    /\ \E t \in TaskIds : tstate[t] = "finished" /\ t \notin queuedAtStop

\* C6: every worker queue is sorted by descending priority, and tasks of equal
\* priority appear in the order in which they were inserted
C6_SortedStable ==
    \A w \in Workers : \A i, j \in 1..Len(m_Queues[w]) :
        i < j =>
            LET a == m_Queues[w][i]
                b == m_Queues[w][j]
            IN \/ Priority[a] > Priority[b]
               \/ Priority[a] = Priority[b] /\ stamp[a] < stamp[b]

\* C6 happens: a push went between queued tasks, behind the task of its own
\* priority and in front of an older task of lower priority
C6_Witness ==
    \E w \in Workers :
        /\ Len(m_Queues[w]) = 3
        /\ Priority[m_Queues[w][1]] = Priority[m_Queues[w][2]]
        /\ stamp[m_Queues[w][1]] < stamp[m_Queues[w][3]]
        /\ stamp[m_Queues[w][3]] < stamp[m_Queues[w][2]]

\* C7: with one worker and no contention, A (Low), B (High), C (Normal)
\* submitted in that order are executed in the order B, C, A: C is not invoked
\* before B, nor A before C
C7_OrderBCA ==
    /\ execCount[TaskC] = 1 => execCount[TaskB] = 1
    /\ execCount[TaskA] = 1 => execCount[TaskC] = 1

\* the number of calls fn(i) so far
Visits(i) == Cardinality({k \in 1..Len(fnLog) : fnLog[k][1] = i})

\* C8: when Execute returns on a scheduler with workers, fn has been invoked
\* exactly once for every index in [0, count) and for no other index, and no
\* batch is pending or in progress, whatever batchSize is
C8_EveryIndexOnce ==
    \A c \in Clients :
        (cpc[c] = "pf_wait" /\ Returning(c)) =>
            /\ \A i \in 0..(pf[c].count - 1) : Visits(i) = 1
            /\ \A k \in 1..Len(fnLog) : fnLog[k][1] \in 0..(pf[c].count - 1)
            /\ \A k \in 1..Len(pf[c].handles) : tstate[pf[c].handles[k]] = "finished"

\* C9: without a scheduler Execute calls fn(0), fn(1), ..., fn(count - 1) on the
\* calling thread in ascending order, each once, and submits no task
C9_SerialFallback ==
    \A c \in Clients :
        cpc[c] = "pf_serial" =>
            /\ pf[c].i <= pf[c].count
            /\ fnLog = [k \in 1..pf[c].i |-> <<k - 1, ClientThread(c)>>]
            /\ Returning(c) => Len(fnLog) = pf[c].count
            /\ TasksUsed = pf[c].used
            /\ InQueues = {}

\* C9 happens: the serial loop has run for the largest count and Execute returns
C9_Witness ==
    /\ cpc[Main] = "pf_serial"
    /\ Returning(Main)
    /\ pf[Main].count = MaxCount
    /\ Len(fnLog) = MaxCount

\* C11: when the callable of a task fails, the handle counter of the task and
\* the global in-flight counter are still decremented: the handle becomes
\* complete and the task's share of m_ActiveTasks is given back
C11_FailureStillCounted ==
    \A t \in TaskIds :
        (tstate[t] = "failed") ~>
            (IsComplete(t) /\ m_ActiveTasks < Cardinality({u \in TaskIds : tepoch[u] = epoch}))

\* C12: a call of Initialize while the scheduler is initialized changes nothing,
\* whatever worker count it asks for: the worker threads and their positions,
\* the queues and their contents, the mutexes, m_ActiveTasks, every task and
\* handle counter and every caller are as before
C12_ReinitializeNoOp ==
    [][\A n \in 0..MaxWorkers : \A hw \in 0..(MaxWorkers + 1) :
          (s_Instance /\ Initialize(Main, n, hw)) =>
              (lastInit' = "ignored" /\ UNCHANGED <<shared, wlocals, tasks, clocals>>)]_vars

\* C12 happens: Initialize was called and ignored on a one-worker scheduler that
\* has one task queued and another one executing
C12_Witness ==
    /\ lastInit = "ignored"
    /\ s_Instance
    /\ m_Workers = 1
    /\ m_ActiveTasks = 2
    /\ InQueues # {}
    /\ wpc[1] = "run"

\* the threads spawned by InitializeInternal that ShutdownInternal has not released
SpawnedWorkers == {w \in Workers : wpc[w] # "none"}

\* C13: GetWorkerCount() is 0 without an instance; with one it is the number of
\* worker threads spawned, threads 1..count each on the queue of its own index;
\* the Initialize(n) that created the instance spawned n threads when n > 0 and
\* max(1, H - 1) when n = 0; the count does not change while the instance lives
C13_GetWorkerCount ==
    /\ [](~s_Instance => GetWorkerCount = 0 /\ SpawnedWorkers = {})
    /\ [](s_Instance => GetWorkerCount >= 1 /\ SpawnedWorkers = 1..GetWorkerCount)
    /\ [][\A n \in 0..MaxWorkers : \A hw \in 0..(MaxWorkers + 1) :
            (~s_Instance /\ Initialize(Main, n, hw)) =>
                GetWorkerCount' = IF n > 0 THEN n ELSE Max(1, hw - 1)]_vars
    /\ [][(s_Instance /\ s_Instance') => GetWorkerCount' = GetWorkerCount]_vars

\* C13 happens: after a Shutdown a second instance runs MaxWorkers threads
C13_Witness ==
    /\ s_Instance
    /\ epoch = 2
    /\ lastInit = "created"
    /\ GetWorkerCount = MaxWorkers
    /\ \A w \in Workers : wpc[w] # "none"

\* the positions of a caller inside Schedule
InSchedule == {"push_lock", "push_cs", "notify"}

\* C14: a queue mutex is held only inside the critical section of a pop, a steal
\* or a push, never by a thread that is executing a callable or waiting idle;
\* so every call of Schedule returns, from the main thread or from inside a
\* callable, even when the callables in execution never finish
C14_ScheduleReturns ==
    /\ [](\A q \in Workers : \A w \in Workers :
            m_QueueMutexes[q] = WorkerThread(w) =>
                \/ wpc[w] = "pop_cs" /\ q = w
                \/ wpc[w] = "steal_cs" /\ q = queueIndex[w]
                \/ wpc[w] = "run" /\ cpc[Callable(w)] = "push_cs" /\ q = targetQueue[Callable(w)])
    /\ [](\A q \in Workers :
            m_QueueMutexes[q] = ClientThread(Main) => cpc[Main] = "push_cs" /\ q = targetQueue[Main])
    /\ \A c \in Clients : (cpc[c] \in InSchedule) ~> (cpc[c] = "idle")

\* C14 happens: the only worker is inside a callable, a Schedule of the main
\* thread and a Schedule made from inside that callable have both returned,
\* and their tasks are queued
C14_Witness ==
    /\ m_Workers = 1
    /\ wpc[1] = "run"
    /\ cpc[Main] = "idle" /\ cpc[Callable(1)] = "idle"
    /\ \E t, u \in TaskIds :
          /\ tstate[t] = "queued" /\ submitter[t] = ClientThread(Main)
          /\ tstate[u] = "queued" /\ submitter[u] = WorkerThread(1)

\* C15 as stated: no callable runs on the thread that called Schedule for it
C15_NotOnSubmitter ==
    \A w \in Workers :
        wpc[w] \in {"call", "run"} => submitter[wtask[w]] # WorkerThread(w)

\* C15 as amended: Schedule never runs the callable: a callable is invoked only
\* by a worker thread, in its loop, for a task it took out of a queue, and
\* while the Schedule call of a task is in progress the task is not executed
\* on the calling thread.  (A task submitted from inside a callable can later
\* run on the worker thread that submitted it.)
C15_ExecutedByWorkerLoop ==
    /\ \A t \in TaskIds : execCount[t] > 0 => deqCount[t] > 0 /\ stamp[t] > 0
    /\ \A t \in TaskIds :
          tstate[t] = "running" => \E w \in Workers : wtask[w] = t /\ wpc[w] = "run"
    /\ \A w \in Workers : \A c \in Clients :
          (wpc[w] \in {"call", "run"} /\ ctask[c] = wtask[w] /\ cpc[c] \in InSchedule)
              => (cpc[c] = "notify" /\ ClientThread(c) # WorkerThread(w))
    /\ \A w \in Workers :
          (wpc[w] \in {"call", "run"} /\ submitter[wtask[w]] = WorkerThread(w))
              => ctask[Callable(w)] # wtask[w]

\* C15 happens: a worker executes a task that it submitted itself from inside
\* an earlier callable, after taking it out of a queue
C15_Witness ==
    \E w \in Workers :
        /\ wpc[w] = "run"
        /\ submitter[wtask[w]] = WorkerThread(w)
        /\ deqCount[wtask[w]] = 1
        /\ cpc[Callable(w)] = "idle"

\* C16: ScheduleBatch returns one handle per callable, in the order of the
\* callables: handle i is the handle of the task that carries callable i, and
\* on an initialized scheduler it is complete only when callable i has been
\* executed and has returned; no callable of the batch runs twice, and when
\* every handle has been waited on every callable has run exactly once
C16_ScheduleBatch ==
    \A c \in Clients :
        cpc[c] = "sb_wait" =>
            LET h == pf[c].handles IN
            /\ Len(h) = pf[c].count
            /\ \A i \in 1..Len(h) : h[i] = pf[c].used + i /\ range[h[i]] = <<i - 1, i>>
            /\ \A i \in 1..Len(h) :
                  (tepoch[h[i]] > 0 /\ IsComplete(h[i])) =>
                      (Visits(i - 1) = 1 /\ tstate[h[i]] = "finished")
            /\ \A k \in 1..Len(fnLog) : fnLog[k][1] \in 0..(pf[c].count - 1)
            /\ \A i \in 1..Len(h) : Visits(i - 1) <= 1
            /\ (BatchWaited(c) /\ s_Instance) => \A i \in 1..Len(h) : Visits(i - 1) = 1

\* C16 happens: the handles of a batch of MaxTasks callables have all been
\* waited on, and the callables did not run in the order of the batch
C16_Witness ==
    /\ BatchWaited(Main)
    /\ s_Instance
    /\ pf[Main].count = MaxTasks
    /\ Len(fnLog) = MaxTasks
    /\ fnLog[1][1] # 0

\* C17: the counter of a handle is never below zero: it goes from 0 to 1 in the
\* Schedule call that builds the task, and from 1 to 0 once, in the Decrement
\* of the worker that took the task and executed its callable
C17_CounterNonNegative ==
    /\ [](\A t \in TaskIds : m_Counter[t] >= 0 /\ m_Counter[t] <= 1)
    /\ [][\A t \in TaskIds :
            m_Counter'[t] < m_Counter[t] =>
                /\ m_Counter[t] = 1 /\ m_Counter'[t] = 0
                /\ execCount[t] = 1 /\ tstate[t] = "finished"
                /\ \E w \in Workers : /\ wtask[w] = t
                                      /\ wpc[w] = "dec_handle" /\ wpc'[w] = "dec_active"]_vars
    /\ [][\A t \in TaskIds :
            m_Counter'[t] > m_Counter[t] =>
                (tstate[t] = "free" /\ tstate'[t] = "new" /\ m_Counter'[t] = 1)]_vars

\* C17 happens: a worker has just decremented the handle of the task it
\* executed while the handle of another task, still executing, is at 1
C17_Witness ==
    \E w, x \in Workers :
        /\ wpc[w] = "dec_active" /\ m_Counter[wtask[w]] = 0
        /\ wpc[x] = "run" /\ m_Counter[wtask[x]] = 1

\* C18: handles of different Schedule calls have separate counters: a step
\* changes the counter of at most one handle, the completion of a task (the
\* worker's Decrement) changes the counter of that task's handle only, and the
\* handle of a task that has not finished stays incomplete whatever happens to
\* other tasks; every copy of a handle reads the one counter of its task
C18_HandlesIndependent ==
    /\ [][\A t \in TaskIds :
            m_Counter'[t] # m_Counter[t] =>
                \A u \in TaskIds \ {t} : m_Counter'[u] = m_Counter[u]]_vars
    /\ [][\A w \in Workers :
            (wpc[w] = "dec_handle" /\ wpc'[w] # "dec_handle") =>
                \A u \in TaskIds \ {wtask[w]} : m_Counter'[u] = m_Counter[u]]_vars
    /\ [](\A u \in TaskIds :
            (tepoch[u] > 0 /\ tstate[u] \in {"new", "queued", "taken", "running", "dropped"})
                => ~IsComplete(u))

\* C18 happens: one handle is complete, its task done and accounted for, while
\* the handle of another task, still queued, is not
C18_Witness ==
    \E t, u \in TaskIds :
        /\ tstate[t] = "finished" /\ IsComplete(t)
        /\ \A w \in Workers : wtask[w] = t => wpc[w] \notin {"dec_handle", "dec_active"}
        /\ tstate[u] = "queued" /\ ~IsComplete(u)
        /\ stamp[u] < stamp[t]

\* the tasks of the running instance that m_ActiveTasks still counts: submitted
\* and not finished, or finished with the worker's fetch_sub still to come
InFlight ==
    {t \in TaskIds :
        /\ tepoch[t] = epoch
        /\ \/ tstate[t] \in {"new", "queued", "taken", "running"}
           \/ tstate[t] = "finished" /\ \E w \in Workers :
                 wtask[w] = t /\ wpc[w] \in {"dec_handle", "dec_active"}}

\* C19: an Initialize after a Shutdown starts from m_ActiveTasks = 0 and empty
\* queues, whatever the Shutdown dropped; m_ActiveTasks of the new instance
\* counts the tasks of the new instance only (so its WaitForAll waits for
\* nothing else), and the new workers hold and execute no task of an earlier
\* instance: such a task stays finished or dropped
C19_FreshInstance ==
    /\ [][(~s_Instance /\ s_Instance') =>
            (m_ActiveTasks' = 0 /\ \A w \in Workers : m_Queues'[w] = <<>>)]_vars
    /\ [](s_Instance => m_ActiveTasks = Cardinality(InFlight))
    /\ [](\A t \in TaskIds :
            (tepoch[t] > 0 /\ tepoch[t] < epoch) =>
                /\ tstate[t] \in {"finished", "dropped"}
                /\ tstate[t] = "dropped" => execCount[t] = 0
                /\ t \notin InQueues
                /\ \A w \in Workers : wtask[w] # t)

\* C19 happens: WaitForAll returns on a second instance that has executed a
\* task, while a task dropped by the Shutdown of the first is still incomplete
C19_Witness ==
    /\ s_Instance
    /\ epoch = 2
    /\ cpc[Main] = "wait_all"
    /\ m_ActiveTasks = 0
    /\ \E t, u \in TaskIds :
          /\ tepoch[t] = 1 /\ tstate[t] = "dropped" /\ ~IsComplete(t)
          /\ tepoch[u] = 2 /\ tstate[u] = "finished"

\* ceil(a / b) over the integers
CeilDiv(a, b) == IF a % b = 0 THEN a \div b ELSE (a \div b) + 1

\* C20: called with batchSize = 0 on W > 0 workers, Execute works with batch
\* size max(1, floor(count / (W * 4))) and submits ceil(count / batch size)
\* tasks; for count < W * 4 that is batch size 1 and count tasks
C20_AutoBatchSize ==
    \A c \in Clients :
        cpc[c] \in {"pf_schedule", "pf_wait"} =>
            LET W == GetWorkerCount
                bs == Max(1, pf[c].count \div (W * 4))
            IN /\ pf[c].batchSize = bs
               /\ pf[c].numBatches = CeilDiv(pf[c].count, bs)
               /\ Len(pf[c].handles) <= CeilDiv(pf[c].count, bs)
               /\ cpc[c] = "pf_wait" => Len(pf[c].handles) = CeilDiv(pf[c].count, bs)
               /\ pf[c].count < W * 4 => bs = 1 /\ pf[c].numBatches = pf[c].count

\* C21: a Wait on a complete handle returns without blocking, whatever else is
\* going on, and the step changes no handle counter, not m_ActiveTasks and no
\* queue; the handle stays complete, so the next Wait on it does the same
C21_WaitIdempotent ==
    /\ [](\A c \in Clients :
            (cpc[c] = "sb_wait" /\ pf[c].waitIdx <= Len(pf[c].handles)
                /\ IsComplete(pf[c].handles[pf[c].waitIdx])) => ENABLED BatchWait(c))
    /\ [][\A c \in Clients :
            (cpc[c] = "sb_wait" /\ pf'[c] # pf[c]) =>
                UNCHANGED <<m_Counter, m_ActiveTasks, m_Queues, m_QueueMutexes, tstate>>]_vars
    /\ [][\A t \in TaskIds :
            (tstate[t] # "free" /\ IsComplete(t)) => m_Counter'[t] = 0]_vars

\* C21 happens: two Waits in a row on the handle of a finished task have both
\* returned
C21_Witness ==
    /\ BatchWaited(Main)
    /\ Len(pf[Main].handles) = 2
    /\ pf[Main].handles[1] = pf[Main].handles[2]
    /\ tstate[pf[Main].handles[1]] = "finished"
    /\ IsComplete(pf[Main].handles[1])

\* the queue a worker takes a task from in this step: its own (front) in
\* TryPopTask, queueIndex (back) in TryStealTask
PopStep(w) == wpc[w] = "pop_cs" /\ wpc'[w] = "call"
StealStep(w) == wpc[w] = "steal_cs" /\ wpc'[w] = "call"

\* C22: the steal step of a worker takes tasks from the queues of other
\* workers only, never from its own queue; with a single worker no task leaves
\* the queue from the back
C22_StealOnlyForeign ==
    [][\A w \in Workers : StealStep(w) => queueIndex[w] # w]_vars

\* the tasks in a queue
Elems(q) == {q[k] : k \in 1..Len(q)}

Threads == {WorkerThread(w) : w \in Workers} \cup {ClientThread(c) : c \in Clients}

\* thread th is between the lock and the unlock of a push, pop or steal on
\* queue q
Inside(th, q) ==
    \/ \E w \in Workers :
          /\ th = WorkerThread(w)
          /\ \/ wpc[w] = "pop_cs" /\ q = w
             \/ wpc[w] = "steal_cs" /\ queueIndex[w] = q
    \/ \E c \in Clients :
          th = ClientThread(c) /\ cpc[c] = "push_cs" /\ targetQueue[c] = q

\* C24: a thread inside a push, pop or steal on a queue owns that queue's
\* mutex, so no two threads are inside on the same queue, and a queue changes
\* only in a step of the thread that owns its mutex; a pop or steal attempt on
\* a locked queue gives up and leaves queue and mutex alone; a push does not
\* proceed while the mutex is taken; no thread owns two mutexes
C24_QueueLocks ==
    /\ [](\A q \in Workers : \A th \in Threads :
            /\ Inside(th, q) <=> m_QueueMutexes[q] = th
            /\ \A r \in Workers :
                  (m_QueueMutexes[q] = th /\ m_QueueMutexes[r] = th) => q = r)
    /\ [](\A c \in Clients :
            (cpc[c] = "push_lock" /\ m_QueueMutexes[targetQueue[c]] # NoThread)
                => ~ENABLED PushTask_Lock(c))
    /\ [][\A q \in Workers :
            m_Queues'[q] # m_Queues[q] =>
                /\ m_QueueMutexes[q] # NoThread
                /\ m_QueueMutexes'[q] = NoThread
                /\ \A th \in Threads : Inside(th, q)' => Inside(th, q)]_vars
    /\ [][\A w \in Workers :
            /\ (wpc[w] = "pop" /\ wpc'[w] # "pop" /\ m_QueueMutexes[w] # NoThread)
                  => wpc'[w] = "steal" /\ UNCHANGED <<m_Queues, m_QueueMutexes, wtask>>
            /\ (wpc[w] = "steal" /\ attempts'[w] = attempts[w] + 1)
                  => UNCHANGED <<m_Queues, m_QueueMutexes, wtask>>]_vars

\* C24 happens: a thief is inside a steal on another worker's queue, which is
\* not empty; the owner is about to try its pop and the pusher is waiting for
\* the same mutex
C24_Witness ==
    \E x, q \in Workers :
        /\ x # q
        /\ wpc[x] = "steal_cs" /\ queueIndex[x] = q
        /\ m_QueueMutexes[q] = WorkerThread(x)
        /\ m_Queues[q] # <<>>
        /\ wpc[q] = "pop"
        /\ cpc[Main] = "push_lock" /\ targetQueue[Main] = q

\* C25: the sub-ranges [start, end) computed by Execute for W > 0 workers are
\* contiguous, non-overlapping and non-empty, all of length batchSize except
\* possibly the last, and together they are [0, count), for every count and
\* batchSize of the unsigned type
C25_Partition ==
    \A c \in Clients :
        (cpc[c] = "pf_wait" /\ pf[c].active) =>
            LET hs == pf[c].handles
                n == Len(hs)
            IN /\ n >= 1
               /\ range[hs[1]][1] = 0
               /\ range[hs[n]][2] = pf[c].count
               /\ \A k \in 1..n : range[hs[k]][1] < range[hs[k]][2]
               /\ \A k \in 1..(n - 1) :
                     /\ range[hs[k]][2] = range[hs[k + 1]][1]
                     /\ range[hs[k]][2] - range[hs[k]][1] = pf[c].batchSize
               /\ range[hs[n]][2] - range[hs[n]][1] <= pf[c].batchSize

\* C26: Schedule (also as called by ScheduleBatch) without an instance, before
\* Initialize or after Shutdown, does nothing with the work: the step touches
\* no queue, mutex or in-flight counter and no other handle, the handle it
\* returns is complete at once and stays so, a Wait on it returns at once,
\* and the callable is never dequeued or executed
C26_NoInstanceNoOp ==
    /\ [](\A t \in TaskIds :
            tstate[t] = "unscheduled" =>
                /\ IsComplete(t)
                /\ execCount[t] = 0 /\ deqCount[t] = 0 /\ stamp[t] = 0
                /\ t \notin InQueues
                /\ \A w \in Workers : wtask[w] # t
                /\ \A c \in Clients :
                      (cpc[c] = "sb_wait" /\ pf[c].waitIdx <= Len(pf[c].handles)
                          /\ pf[c].handles[pf[c].waitIdx] = t) => ENABLED BatchWait(c))
    /\ [][\A t \in TaskIds :
            /\ (~s_Instance /\ tstate[t] = "free" /\ tstate'[t] # "free") =>
                  /\ tstate'[t] = "unscheduled"
                  /\ UNCHANGED <<shared, wlocals, stamp, pushes, execCount, deqCount>>
                  /\ \A u \in TaskIds \ {t} : m_Counter'[u] = m_Counter[u]
                  /\ \A c \in Clients : cpc'[c] \notin {"push_lock", "push_cs", "notify"}
            /\ tstate[t] = "unscheduled" => tstate'[t] = "unscheduled"]_vars

\* C26 happens: a task of the first instance was executed; after Shutdown a
\* Schedule returned a handle, the Waits on it have returned, and its callable
\* has not run
C26_Witness ==
    /\ ~s_Instance
    /\ epoch = 1
    /\ \E t, v \in TaskIds :
          /\ tepoch[v] = 1 /\ tstate[v] = "finished"
          /\ v < t
          /\ tstate[t] = "unscheduled" /\ execCount[t] = 0
          /\ BatchWaited(Main)
          /\ pf[Main].handles = <<t, t>>

\* the tasks a worker has taken from a queue and not yet subtracted from
\* m_ActiveTasks: those being executed and those just executed
Held == {t \in TaskIds : Holders(t) # {}}

\* C27: while there is an instance, m_ActiveTasks is at least the number of
\* queued tasks plus the number of tasks held by workers; it moves by steps
\* of one and never wraps below zero; when it is zero every queue is empty
\* and no worker is executing a callable
C27_ActiveTasksBound ==
    /\ [](s_Instance =>
            /\ InQueues \cap Held = {}
            /\ m_ActiveTasks >= Cardinality(InQueues) + Cardinality(Held)
            /\ m_ActiveTasks <= MaxTasks
            /\ m_ActiveTasks = 0 =>
                  /\ \A w \in Workers : m_Queues[w] = <<>>
                  /\ \A w \in Workers : wpc[w] \notin {"call", "run", "dec_handle", "dec_active"})
    /\ [][(s_Instance /\ s_Instance') =>
            /\ m_ActiveTasks' - m_ActiveTasks \in {-1, 0, 1}
            /\ m_ActiveTasks' < m_ActiveTasks =>
                  \E w \in Workers : wpc[w] = "dec_active" /\ wpc'[w] # "dec_active"]_vars

\* C27 happens: one task is being executed, another has been counted by its
\* Schedule call and is not in a queue yet, so the counter is above the number
\* of tasks queued or held
C27_Witness ==
    /\ s_Instance
    /\ m_ActiveTasks = 2
    /\ InQueues = {}
    /\ cpc[Main] = "push_lock"
    /\ \E w \in Workers : wpc[w] = "run" /\ Held = {wtask[w]}

\* C28: the handle of a task dropped by Shutdown stays incomplete for ever:
\* its counter is 1 and stays 1, the task stays dropped, and a Wait on the
\* handle cannot return, whether or not a new instance exists
C28_DroppedNeverComplete ==
    /\ [](\A t \in TaskIds :
            tstate[t] = "dropped" =>
                /\ m_Counter[t] = 1 /\ ~IsComplete(t)
                /\ \A c \in Clients :
                      (cpc[c] = "hwait" /\ ctask[c] = t) => ~ENABLED Wait_Return(c))
    /\ [][\A t \in TaskIds :
            tstate[t] = "dropped" =>
                /\ tstate'[t] = "dropped" /\ m_Counter'[t] = 1
                /\ \A c \in Clients :
                      (cpc[c] = "hwait" /\ ctask[c] = t) =>
                          (cpc'[c] = "hwait" /\ ctask'[c] = t)]_vars

\* C28 happens: the main thread is inside Wait on the handle of a dropped
\* task while the workers of a second instance have executed a newer task
C28_Witness ==
    /\ s_Instance
    /\ epoch = 2
    /\ cpc[Main] = "hwait"
    /\ tstate[ctask[Main]] = "dropped"
    /\ \E u \in TaskIds : tepoch[u] = 2 /\ tstate[u] = "finished" /\ IsComplete(u)
    /\ m_ActiveTasks = 0

\* C29: a task that a worker holds when the running flag is cleared is not
\* abandoned: the worker goes on through the call, the return, the Decrement
\* and the fetch_sub before it tests the flag, so a worker that has left its
\* loop holds no unfinished or uncounted task, and when Shutdown has returned
\* every task that was not in a queue at the clearing of the flag is finished,
\* executed once, with its handle complete
C29_HeldTaskCompletes ==
    /\ [][\A w \in Workers :
            (~m_Running /\ s_Instance /\ wpc'[w] # wpc[w]) =>
                /\ wpc[w] = "call" => wpc'[w] = "run" /\ execCount'[wtask[w]] = 1
                /\ wpc[w] = "run" => wpc'[w] = "dec_handle"
                /\ wpc[w] = "dec_handle" =>
                      wpc'[w] = "dec_active" /\ m_Counter'[wtask[w]] = 0
                /\ wpc[w] = "dec_active" =>
                      wpc'[w] = "loop" /\ m_ActiveTasks' = m_ActiveTasks - 1
                /\ wpc'[w] = "exit" => wpc[w] = "loop"]_vars
    /\ [](\A w \in Workers :
            (wpc[w] \in {"exit", "joined"} /\ wtask[w] # NoTask) =>
                /\ tstate[wtask[w]] = "finished"
                /\ execCount[wtask[w]] = 1
                /\ IsComplete(wtask[w]))
    /\ []((s_Instance /\ \A w \in 1..m_Workers : wpc[w] \in {"exit", "joined"}) =>
            m_ActiveTasks = Cardinality(InQueues))
    /\ [](~s_Instance =>
            \A t \in TaskIds :
                (tepoch[t] = epoch /\ epoch > 0 /\ t \notin queuedAtStop
                    /\ \A c \in Clients : ctask[c] = t => cpc[c] = "hwait") =>
                    tstate[t] = "finished" /\ execCount[t] = 1 /\ IsComplete(t))

\* C29 happens: the flag is cleared, Shutdown is joining a worker, and that
\* worker has executed and decremented the handle of a task it had taken
\* before the flag was cleared, and is about to do the fetch_sub
C29_Witness ==
    /\ s_Instance /\ ~m_Running
    /\ cpc[Main] = "sd_join"
    /\ joinIdx[Main] <= m_Workers
    /\ LET w == joinIdx[Main] IN
          /\ wpc[w] = "dec_active"
          /\ deqAfterStop[w] = 0
          /\ wtask[w] \notin queuedAtStop
          /\ IsComplete(wtask[w])
          /\ m_ActiveTasks >= 1

\* C30: an Execute called from the main thread on an initialized scheduler
\* that is not shut down, with an fn that returns, returns: every batch task
\* is submitted and executed, the Waits on the handles end one after the
\* other, and the call is over
C30_ExecuteTerminates ==
    /\ pf[Main].active ~>
          (/\ Returning(Main)
           /\ Len(pf[Main].handles) = pf[Main].numBatches
           /\ \A k \in 1..Len(pf[Main].handles) :
                 tstate[pf[Main].handles[k]] = "finished")
    /\ pf[Main].active ~> (cpc[Main] = "idle" /\ ~pf[Main].active)

\* C30 happens: Execute is about to return after two batches, each executed
\* by a worker
C30_Witness ==
    /\ cpc[Main] = "pf_wait"
    /\ Returning(Main)
    /\ Len(pf[Main].handles) = 2
    /\ \A k \in 1..2 : execCount[pf[Main].handles[k]] = 1
    /\ Len(fnLog) = 2

====
